---- MODULE Spec2Model ----
(***************************************************************************)
(* Verification model of the meeting recorder (RedKAa/meetbotlocal).       *)
(*                                                                         *)
(* The parts of the program are modelled each with its own specification   *)
(* over the shared state:                                                  *)
(*   SpecJson      botv3.js: writeJsonAtomic, RecordingSession.            *)
(*                 onParticipants, the webrtcEvent bridge                  *)
(*   SpecJsonExdev the same on a file system where rename gives EXDEV      *)
(*   SpecJsonFault the same with failing file-system operations            *)
(*   SpecWriters   botv3.js: openWriter / writeChunk / closeWriter, their  *)
(*                 bridges and the end-of-run loop; webrtc-hook.js: the    *)
(*                 track-meta event of the reader loop                     *)
(*   SpecCapture   meet-recorder-dom-audio.js (and the mixed-audio path of *)
(*                 meetbot-v2.js, which has the same structure): the       *)
(*                 onaudioprocess callback, the write stream of the raw    *)
(*                 artifact, sendAudioChunk and closeAudioFile             *)
(*   SpecParticipants meetbot-v2.js: the page's UserManager and directory  *)
(*                 scrape, the two per-track transform handlers, and the   *)
(*                 updateMeetingParticipants / sendParticipantAudioChunk / *)
(*                 closeAudioFiles functions of the controlling process    *)
(*   SpecSilence   meetbot-v2.js: sendParticipantAudioChunk called with    *)
(*                 chunks of one participant, and closeAudioFiles          *)
(*   SpecRun       botv3.js: recordGoogleMeet from the exposed bridges to  *)
(*                 the end of the run, with the page calling the writer    *)
(*                 bridges                                                 *)
(*   SpecTrack     botv3.js: one track from openWriter over writeChunk to  *)
(*                 closeWriter and finalizeRawToWav                        *)
(*   SpecStart     botv3.js: recordGoogleMeet from the launch of the       *)
(*                 browser over session.init() and the exposure of the     *)
(*                 bridges to the wait for admission                       *)
(*   SpecInstall   webrtc-hook.js, hook-mini.js: the installation of the   *)
(*                 scripts in a document and their track listeners         *)
(*   SpecMeeting   meetbot-v2.js: the participants list of the meeting     *)
(*                 metadata under updateMeetingParticipants and the first  *)
(*                 chunks of audio                                         *)
(*   SpecPcm       webrtc-hook.js, meetbot-v2.js: the down-mix of a frame  *)
(*                 to mono and the conversion of its samples to 16 bit     *)
(*   SpecSession   botv3.js: the tracks table of RecordingSession, its     *)
(*                 track-open / track-meta / track-close handlers, the     *)
(*                 writers they go with, and the end of the run            *)
(*   SpecIntercept meetbot-v2.js and webrtc-hook.js: the replacement of    *)
(*                 RTCPeerConnection and the delivery of track events      *)
(*   SpecHook      webrtc-hook.js: pending tracks, webrtcActivate,         *)
(*                 startProcessor and the reader loop of each track        *)
(***************************************************************************)
EXTENDS Integers, Sequences, FiniteSets, TLC

VARIABLES
  \* ---- botv3.js: RecordingSession and the metadata write queue ----
  participants,   \* session.participants : id -> entry (or NoPart)
  dirs,           \* participant directories that exist (ensureDir(pdir))
  activityLog,    \* lines appended to activity.log
  disk,           \* destination path -> document currently at that path
  writeQueues,    \* the writeQueues Map : path -> tail promise (0 = no entry)
  promises,       \* every promise p created at botv3.js line 46, in creation order
  calls,          \* every webrtcEvent('participants', arr) invocation (a coroutine)
  clock,          \* wall clock read by new Date()
  tickets,        \* number of writeJsonAtomic invocations made so far
  errLog,         \* console.error lines of the webrtcEvent bridge
  \* ---- botv3.js: track writers; webrtc-hook.js: reader loop ----
  writers,        \* the writers Map : key -> writer (or NoWriter)
  writersOrder,   \* insertion order of the keys of the writers Map
  fds,            \* every file descriptor fs.openSync returned, in order
  rawFiles,       \* raw artifact path -> file
  wavFiles,       \* container path -> file
  trackMeta,      \* key -> sample rate sent in the track-meta event (0 = not sent)
  consoleLog,     \* lines printed by the controlling process
  written,        \* key -> bytes that writeChunk accepted for the key
  chunksSent,     \* number of webrtcWriteTrack calls
  dropped,        \* number of chunks writeChunk dropped
  phase,          \* "recording" until the end-of-run loop has run
  \* ---- meet-recorder-dom-audio.js: audio capture ----
  running,          \* the page's running flag
  expired,          \* Date.now() >= stopAt
  callbacks,        \* every onaudioprocess invocation (a coroutine)
  audioWriteStream, \* the write stream: chunks buffered in memory, ended flag
  audioRaw,         \* bytes of the raw artifact on disk
  audioWav,         \* the container file
  captureLog,       \* lines printed through log / logBot
  closeCalls,       \* executions of closeAudioFile
  issuedAtClose,    \* bytes handed to the stream before the last finalization
  \* ---- meetbot-v2.js: participants and per-participant audio ----
  users,                   \* UserManager instance -> its users Map, in insertion order
  streamToParticipant,     \* UserManager instance -> its streamToParticipant Map
  meetingParticipants,     \* meetingMetadata.participants of the controlling process
  participantDirs,         \* participant directories that exist
  participantAudioStreams, \* participantId -> stream info (or NoStream)
  participantsSummary,     \* participants_summary.json (or NoSummary)
  pageLog,                 \* number of window.logBot error lines of the transforms
  pclock,                  \* Date.now() of the page
  nframes,                 \* frames handed to the transforms so far
  nchunks,                 \* invocations of sendParticipantAudioChunk so far
  silentRun,               \* participantId -> length of the current run of silent chunks
  lastFrame,               \* the frame the transforms handled last, and what became of it
  lastChunk,               \* the chunk sendParticipantAudioChunk got last, and what became of it
  lastAdd,                 \* the last addUser call, and the entry it left
  \* ---- botv3.js: recordGoogleMeet ----
  runPc,          \* where recordGoogleMeet stands
  sessionEnded,   \* session.end() has written the end metadata
  failedKey,      \* the key whose closeWriter threw in the end-of-run loop (or NoKey)
  \* ---- RTCPeerConnection interceptors ----
  rtcImpl,           \* which interceptor the page runs
  rtcInstalled,      \* window.RTCPeerConnection has been replaced
  peerConnections,   \* every RTCPeerConnection the page constructed, in order
  onTrackCallbacks,  \* the interceptor's callbacks: whether each one throws
  lastTrackEvent,    \* the listener and callback invocations of the last track event
  \* ---- webrtc-hook.js: the track readers ----
  ACTIVE,            \* webrtcActivate has been called
  pending,           \* the ids of the tracks seen before activation
  readers,           \* one entry per startProcessor call, in call order
  lastRead,          \* the frame a reader handled last, and what the loop did with it
  \* ---- botv3.js: RecordingSession and its track events ----
  tracks,            \* this.tracks: key -> entry
  tracksIndexDoc,    \* tracks/tracks_index.json on disk
  trackDocs,         \* tracks/track_<key>.json on disk
  metaEnded,         \* this.meta.ended_at is set
  metaDoc,           \* meeting_metadata.json on disk
  handlers,          \* the track event handlers that are suspended on an await
  endPc,             \* where the end of the run stands
  lastEvent,         \* the track event the bridge got last
  \* ---- botv3.js: the start of recordGoogleMeet ----
  startPc,           \* the step of the start that comes next
  startErr,          \* the step that failed (0: none)
  bridges,           \* the functions exposed to the page
  pageNavigated,     \* joinMeeting has sent the page to the meeting
  \* ---- webrtc-hook.js / meetbot-v2.js: the samples of a frame ----
  pcmFrame,          \* the frame read last: its samples per channel
  pcmPath,           \* the copy the hook took for it
  pcmMono,           \* the mono samples made of it
  pcmBytes,          \* the bytes handed to webrtcWriteTrack for it
  \* ---- webrtc-hook.js / hook-mini.js: the installation in a document ----
  hookFlags,         \* the scripts whose installed flag the window carries
  wrappers,          \* the scripts that wrap window.RTCPeerConnection, innermost first
  scriptRuns,        \* script -> the times it ran in the document
  hookPcs,           \* the peer connections made: flags and track listeners
  handledLast,       \* script -> the times it handled the last track event
  trackEvents        \* the track events dispatched

jvars == <<participants, dirs, activityLog, disk, writeQueues, promises,
           calls, clock, tickets, errLog>>
wvars == <<writers, writersOrder, fds, rawFiles, wavFiles, trackMeta,
           consoleLog, written, chunksSent, dropped, phase>>
cvars == <<running, expired, callbacks, audioWriteStream, audioRaw, audioWav,
           captureLog, closeCalls, issuedAtClose>>

avars == <<users, streamToParticipant, meetingParticipants, participantDirs,
           participantAudioStreams, participantsSummary, pageLog, pclock,
           nframes, nchunks, silentRun, lastFrame, lastChunk, lastAdd>>

rvars == <<runPc, sessionEnded, failedKey>>

ivars == <<rtcImpl, rtcInstalled, peerConnections, onTrackCallbacks, lastTrackEvent>>

hvars == <<ACTIVE, pending, readers, lastRead>>

svars == <<tracks, tracksIndexDoc, trackDocs, metaEnded, metaDoc, handlers,
           endPc, lastEvent>>

uvars == <<startPc, startErr, bridges, pageNavigated>>

pvars == <<pcmFrame, pcmPath, pcmMono, pcmBytes>>

gvars == <<hookFlags, wrappers, scriptRuns, hookPcs, handledLast, trackEvents>>

vars == <<jvars, wvars, cvars, avars, rvars, ivars, hvars, svars, uvars, pvars,
          gvars>>
\* what the metadata part leaves alone
notJ == <<wvars, cvars, avars, rvars, ivars, hvars, svars, uvars, pvars,
          gvars>>
\* what the writers part leaves alone
notW == <<jvars, cvars, avars, rvars, ivars, hvars, svars, uvars, pvars,
          gvars>>
\* what the capture part leaves alone
notC == <<jvars, wvars, avars, rvars, ivars, hvars, svars, uvars, pvars,
          gvars>>
\* what the participants part leaves alone
notA == <<jvars, wvars, cvars, rvars, ivars, hvars, svars, uvars, pvars,
          gvars>>
\* what recordGoogleMeet and the interceptors leave alone, besides the writers
notRW == <<jvars, cvars, avars, ivars, hvars, svars, uvars, pvars,
          gvars>>
\* what the interceptors leave alone
notI == <<jvars, wvars, cvars, avars, rvars, hvars, svars, uvars, pvars,
          gvars>>
\* what the track readers of webrtc-hook.js leave alone
notH == <<jvars, wvars, cvars, avars, rvars, ivars, svars, uvars, pvars,
          gvars>>
\* what the session's track events leave alone, besides the writers
notSW == <<jvars, cvars, avars, rvars, ivars, hvars, uvars, pvars,
          gvars>>
\* what the start of recordGoogleMeet leaves alone
notU == <<jvars, wvars, cvars, avars, rvars, ivars, hvars, svars, pvars,
          gvars>>

----------------------------------------------------------------------------
(* Bounds of the metadata model *)
\* the bridge invocations of a run: two calls that can be in flight together
CallSlots == {1, 2}
\* array elements handed to onParticipants, over all calls
MaxElems == 2

Pids == {"p1", "p2"}
\* inputs of the bridge: an element of the participants array; "" is a
\* missing (falsy) field
InNames == {"", "n1"}
InPart == [id : Pids, name : InNames] \cup {[id |-> "", name |-> ""]}

RECURSIVE SeqsUpTo(_, _)
SeqsUpTo(S, n) ==
  IF n = 0 THEN {<<>>}
  ELSE LET shorter == SeqsUpTo(S, n - 1)
       IN  shorter \cup {Append(s, x) : s \in {t \in shorter : Len(t) = n - 1}, x \in S}

\* elements handed over so far
Elems == LET RECURSIVE Sum(_)
             Sum(c) == IF c = 0 THEN 0 ELSE Len(calls[c].arr) + Sum(c - 1)
         IN  Sum(Len(calls))
InArrs == SeqsUpTo(InPart, MaxElems - Elems)

----------------------------------------------------------------------------
(* Paths and documents *)
SummaryFile == <<"participants_summary.json">>
InfoFile(id) == <<"info.json", id>>
Files == {SummaryFile} \cup {InfoFile(id) : id \in Pids}

NoPart == [absent |-> TRUE]
NoDoc == [kind |-> "none"]
PartialDoc == [kind |-> "partial"]
Doc(v) == [kind |-> "doc", val |-> v]

\* JSON.stringify(this.participants): the entries that are present
StringifyTable(t) == [id \in {i \in Pids : t[i] # NoPart} |-> t[id]]

\* the object handed to writeJsonAtomic is a live reference; it is
\* serialised when run() executes (line 32), from the tables as they are then
Stringify(file, parts) ==
  IF file = SummaryFile THEN Doc(StringifyTable(parts))
  ELSE Doc(parts[file[2]])

\* p.display_name || p.name || 'Unknown'
DisplayName(p) == IF p.name = "" THEN "Unknown" ELSE p.name

----------------------------------------------------------------------------
(* Promise states *)
Running == {"writing", "renaming", "copying", "copying2", "unlinking"}
Settled == {"fulfilled", "rejected"}

\* line 45: const prev = writeQueues.get(file) || Promise.resolve()
PrevNone(file) == 0
PrevPromise(file) == writeQueues[file]

\* prev.then(run): run starts once prev is fulfilled
RunUngated(p) == TRUE
PrevFulfilled(p) ==
  IF promises[p].prev = 0 THEN TRUE
  ELSE promises[promises[p].prev].st = "fulfilled"
\* prev.then(run) with prev rejected: run is skipped, p rejects
PrevRejected(p) ==
  IF promises[p].prev = 0 THEN FALSE
  ELSE promises[promises[p].prev].st = "rejected"

\* lines 46-48: .finally(() => { if (writeQueues.get(file) === p) delete })
Finally(p) ==
  IF writeQueues[promises[p].file] = p
  THEN [writeQueues EXCEPT ![promises[p].file] = 0]
  ELSE writeQueues

----------------------------------------------------------------------------
(* RecordingSession.onParticipants: the synchronous stretch of the loop    *)
(* from element i up to the next await                                     *)
RECURSIVE Advance(_, _, _, _)
Advance(arr, i, parts, now) ==
  IF i > Len(arr)
  THEN [parts |-> parts, pc |-> "wj_dir", i |-> i, file |-> SummaryFile]
  ELSE LET p == arr[i]
           id == p.id
       IN  IF id = "" THEN Advance(arr, i + 1, parts, now)
           ELSE IF parts[id] = NoPart
           THEN [parts |-> [parts EXCEPT ![id] =
                              [id |-> id, display_name |-> DisplayName(p),
                               first_seen |-> now, last_seen |-> now]],
                 pc |-> "mkdir", i |-> i, file |-> InfoFile(id)]
           ELSE [parts |-> [parts EXCEPT ![id].display_name = DisplayName(p),
                                         ![id].last_seen = now],
                 pc |-> "wj_dir", i |-> i, file |-> InfoFile(id)]

InitJson ==
  /\ participants = [id \in Pids |-> NoPart]
  /\ dirs = {}
  /\ activityLog = <<>>
  \* RecordingSession.init() has written the initial documents
  /\ disk = [f \in Files |-> IF f = SummaryFile
                             THEN Doc(StringifyTable([id \in Pids |-> NoPart]))
                             ELSE NoDoc]
  /\ writeQueues = [f \in Files |-> 0]
  /\ promises = <<>>
  /\ calls = <<>>
  /\ clock = 0
  /\ tickets = 0
  /\ errLog = 0

\* webrtcEvent('participants', arr) -> session.onParticipants(arr), up to
\* its first await
OnParticipants ==
  /\ Len(calls) + 1 \in CallSlots
  /\ \E arr \in InArrs :
       /\ LET now == clock + 1
              a == Advance(arr, 1, participants, now)
              isWj == a.pc = "wj_dir"
          IN  /\ participants' = a.parts
              /\ clock' = now
              /\ tickets' = IF isWj THEN tickets + 1 ELSE tickets
              /\ calls' = Append(calls,
                   [arr |-> arr, i |-> a.i, pc |-> a.pc, file |-> a.file,
                    now |-> now, prom |-> 0,
                    ticket |-> IF isWj THEN tickets + 1 ELSE 0])
  /\ UNCHANGED <<dirs, activityLog, disk, writeQueues, promises, errLog, notJ>>

\* line 189: await ensureDir(pdir) completes
EnsureParticipantDir(c) ==
  /\ calls[c].pc = "mkdir"
  /\ dirs' = dirs \cup {calls[c].arr[calls[c].i].id}
  /\ calls' = [calls EXCEPT ![c].pc = "append"]
  /\ UNCHANGED <<participants, activityLog, disk, writeQueues, promises,
                 clock, tickets, errLog, notJ>>

\* line 190: await appendLine(...) completes; line 195 calls writeJsonAtomic,
\* which suspends on ensureDir(dir) (line 28)
AppendActivity(c) ==
  /\ calls[c].pc = "append"
  /\ activityLog' = Append(activityLog,
                           <<"participant-add", calls[c].arr[calls[c].i].id>>)
  /\ tickets' = tickets + 1
  /\ calls' = [calls EXCEPT ![c].pc = "wj_dir", ![c].ticket = tickets + 1]
  /\ UNCHANGED <<participants, dirs, disk, writeQueues, promises, clock, errLog, notJ>>

\* lines 28, 45-50: ensureDir(dir) completes; the write is chained behind
\* the tail of the queue of its path and becomes the new tail
Enqueue(c) ==
  /\ calls[c].pc = "wj_dir"
  /\ LET f == calls[c].file
         p == Len(promises) + 1
     IN  /\ promises' = Append(promises,
               [file |-> f, st |-> "queued", prev |-> PrevPromise(f),
                data |-> NoDoc, tmp |-> NoDoc, ran |-> FALSE,
                ticket |-> calls[c].ticket])
         /\ writeQueues' = [writeQueues EXCEPT ![f] = p]
         /\ calls' = [calls EXCEPT ![c].pc = "wj_wait", ![c].prom = p,
                                  ![c].ticket = 0]
  /\ UNCHANGED <<participants, dirs, activityLog, disk, clock, tickets, errLog, notJ>>

\* lines 30-33: run() starts: serialise, issue writeFile(tmp, data)
RunStart(p) ==
  /\ promises[p].st = "queued"
  /\ PrevFulfilled(p)
  /\ promises' = [promises EXCEPT ![p].st = "writing", ![p].ran = TRUE,
                    ![p].ticket = 0,
                    ![p].data = Stringify(promises[p].file, participants)]
  /\ UNCHANGED <<participants, dirs, activityLog, disk, writeQueues, calls,
                 clock, tickets, errLog, notJ>>

\* line 33: writeFile(tmp, data) completes
WriteTmp(p) ==
  /\ promises[p].st = "writing"
  /\ promises' = [promises EXCEPT ![p].st = "renaming", ![p].tmp = promises[p].data,
                                        ![p].data = NoDoc]
  /\ UNCHANGED <<participants, dirs, activityLog, disk, writeQueues, calls,
                 clock, tickets, errLog, notJ>>

\* line 35: rename(tmp, file) succeeds: the destination is swapped at once
Rename(p) ==
  /\ promises[p].st = "renaming"
  /\ disk' = [disk EXCEPT ![promises[p].file] = promises[p].tmp]
  /\ promises' = [promises EXCEPT ![p].st = "fulfilled", ![p].tmp = NoDoc]
  /\ writeQueues' = Finally(p)
  /\ UNCHANGED <<participants, dirs, activityLog, calls, clock, tickets, errLog, notJ>>

\* lines 36-38: rename fails with EXDEV; copyFile(tmp, file) is issued
RenameExdev(p) ==
  /\ promises[p].st = "renaming"
  /\ promises' = [promises EXCEPT ![p].st = "copying"]
  /\ UNCHANGED <<participants, dirs, activityLog, disk, writeQueues, calls,
                 clock, tickets, errLog, notJ>>

\* line 38: copyFile opens the destination for writing (truncating it) and
\* fills it in; until it is done the destination is incomplete
CopyBegin(p) ==
  /\ promises[p].st = "copying"
  /\ disk' = [disk EXCEPT ![promises[p].file] = PartialDoc]
  /\ promises' = [promises EXCEPT ![p].st = "copying2"]
  /\ UNCHANGED <<participants, dirs, activityLog, writeQueues, calls,
                 clock, tickets, errLog, notJ>>

\* line 38: copyFile completes; line 39: unlink(tmp) is issued
CopyEnd(p) ==
  /\ promises[p].st = "copying2"
  /\ disk' = [disk EXCEPT ![promises[p].file] = promises[p].tmp]
  /\ promises' = [promises EXCEPT ![p].st = "unlinking"]
  /\ UNCHANGED <<participants, dirs, activityLog, writeQueues, calls,
                 clock, tickets, errLog, notJ>>

\* line 39: unlink(tmp) completes; run() returns
Unlink(p) ==
  /\ promises[p].st = "unlinking"
  /\ promises' = [promises EXCEPT ![p].st = "fulfilled", ![p].tmp = NoDoc]
  /\ writeQueues' = Finally(p)
  /\ UNCHANGED <<participants, dirs, activityLog, disk, calls, clock, tickets, errLog, notJ>>

\* lines 195-197: the awaited write is fulfilled; the loop goes on to the
\* next element, or to the summary write, or the handler returns
Resume(c) ==
  /\ calls[c].pc = "wj_wait"
  /\ promises[calls[c].prom].st = "fulfilled"
  /\ IF calls[c].file = SummaryFile
     THEN /\ calls' = [calls EXCEPT ![c].pc = "done"]
          /\ UNCHANGED <<participants, tickets>>
     ELSE LET a == Advance(calls[c].arr, calls[c].i + 1, participants, calls[c].now)
              isWj == a.pc = "wj_dir"
          IN  /\ participants' = a.parts
              /\ tickets' = IF isWj THEN tickets + 1 ELSE tickets
              /\ calls' = [calls EXCEPT ![c].pc = a.pc, ![c].i = a.i,
                             ![c].file = a.file,
                             ![c].ticket = IF isWj THEN tickets + 1 ELSE 0]
  /\ UNCHANGED <<dirs, activityLog, disk, writeQueues, promises, clock, errLog, notJ>>

NextJson ==
  \/ OnParticipants
  \/ \E c \in 1..Len(calls) : EnsureParticipantDir(c)
  \/ \E c \in 1..Len(calls) : AppendActivity(c)
  \/ \E c \in 1..Len(calls) : Enqueue(c)
  \/ \E p \in 1..Len(promises) : RunStart(p)
  \/ \E p \in 1..Len(promises) : WriteTmp(p)
  \/ \E p \in 1..Len(promises) : Rename(p)
  \/ \E c \in 1..Len(calls) : Resume(c)


\* the same program on a file system where rename can fail with EXDEV
NextJsonExdev ==
  \/ NextJson
  \/ \E p \in 1..Len(promises) : RenameExdev(p)
  \/ \E p \in 1..Len(promises) : CopyBegin(p)
  \/ \E p \in 1..Len(promises) : CopyEnd(p)
  \/ \E p \in 1..Len(promises) : Unlink(p)


\* the same program with file-system operations that can fail
\* line 33: writeFile(tmp, data) rejects; run() throws
WriteTmpFails(p) ==
  /\ promises[p].st = "writing"
  /\ promises' = [promises EXCEPT ![p].st = "rejected"]
  /\ writeQueues' = Finally(p)
  /\ UNCHANGED <<participants, dirs, activityLog, disk, calls, clock, tickets, errLog, notJ>>

\* lines 35-42: rename rejects with an error other than EXDEV; run() rethrows
RenameFails(p) ==
  /\ promises[p].st = "renaming"
  /\ promises' = [promises EXCEPT ![p].st = "rejected"]
  /\ writeQueues' = Finally(p)
  /\ UNCHANGED <<participants, dirs, activityLog, disk, calls, clock, tickets, errLog, notJ>>

\* line 46: prev.then(run) has no rejection handler: when prev is rejected
\* run is not called and p is rejected with the same error
SkipRun(p) ==
  /\ promises[p].st = "queued"
  /\ PrevRejected(p)
  /\ promises' = [promises EXCEPT ![p].st = "rejected", ![p].ticket = 0]
  /\ writeQueues' = Finally(p)
  /\ UNCHANGED <<participants, dirs, activityLog, disk, calls, clock, tickets, errLog, notJ>>

\* lines 326-333: the awaited write rejects; onParticipants throws, the
\* bridge catches and logs
Throw(c) ==
  /\ calls[c].pc = "wj_wait"
  /\ promises[calls[c].prom].st = "rejected"
  /\ calls' = [calls EXCEPT ![c].pc = "threw"]
  /\ errLog' = errLog + 1
  /\ UNCHANGED <<participants, dirs, activityLog, disk, writeQueues, promises,
                 clock, tickets, notJ>>

NextJsonFault ==
  \/ NextJson
  \/ \E p \in 1..Len(promises) : WriteTmpFails(p)
  \/ \E p \in 1..Len(promises) : RenameFails(p)
  \/ \E p \in 1..Len(promises) : SkipRun(p)
  \/ \E c \in 1..Len(calls) : Throw(c)



----------------------------------------------------------------------------
(* botv3.js: track writers *)

\* bounds of the writers model
MaxOpens == 2
MaxChunks == 2
MaxLogs == 1

\* characters of a key: "a" stands for the class [a-z0-9] and "/" for any
\* character outside [a-z0-9_\-.]
SafeChars == {"a", "_"}
Keys == {<<"a">>, <<"/">>, <<"_">>}
\* line 97: key.replace(/[^a-z0-9_\-\.]/gi, '_')
Safe(key) == [i \in 1..Len(key) |-> IF key[i] \in SafeChars THEN key[i] ELSE "_"]
\* lines 98-99
RawPath(key) == <<"track_", Safe(key), ".pcm16le", ".raw">>
WavOf(rawPath) == [rawPath EXCEPT ![4] = ".wav"]
WavPath(key) == WavOf(RawPath(key))
RawPaths == {RawPath(k) : k \in Keys}
WavPaths == {WavPath(k) : k \in Keys}

\* sample rates: 0 stands for a missing (falsy) sample_rate
DefaultRate == 16000
Rates == {48000}
\* the meta argument of webrtcOpenTrack
Metas == [sample_rate : {0} \cup Rates]
\* the array argument of webrtcWriteTrack
Chunks == {<<1>>, <<2, 257>>}
\* line 318: Uint8Array.from(u8)
ToU8(u8) == [i \in 1..Len(u8) |-> u8[i] % 256]

NoWriter == [absent |-> TRUE]
NoFile == [exists |-> FALSE]

Zeros(n) == [i \in 1..n |-> 0]
WriteAtStart(data, pos, buf) == buf \o SubSeq(data, Len(buf) + 1, Len(data))
\* fs.writeSync(fd, buf): the bytes go to the file at the descriptor's position
WriteAt(data, pos, buf) ==
  LET padded == IF pos > Len(data) THEN data \o Zeros(pos - Len(data)) ELSE data
  IN  SubSeq(padded, 1, pos) \o buf \o SubSeq(padded, pos + Len(buf) + 1, Len(padded))

\* line 60: Buffer.alloc(44)
WavHeaderSize == 44
\* writeUInt16LE, writeUInt32LE: the bytes of n, least significant first
LE16(n) == <<n % 256, (n \div 256) % 256>>
LE32(n) == <<n % 256, (n \div 256) % 256, (n \div 65536) % 256,
             (n \div 16777216) % 256>>
\* lines 57-75: the header writeWavHeader(fd, dataLength, sampleRate) writes;
\* 'RIFF', 'WAVE', 'fmt ' and 'data' are given by their character codes
WriteWavHeader(dataLength, sampleRate) ==
  <<82, 73, 70, 70>> \o LE32(36 + dataLength) \o <<87, 65, 86, 69>>
    \o <<102, 109, 116, 32>> \o LE32(16) \o LE16(1) \o LE16(1)
    \o LE32(sampleRate) \o LE32(sampleRate * 2) \o LE16(2) \o LE16(16)
    \o <<100, 97, 116, 97>> \o LE32(dataLength)

CopyFirstByte(data) == IF data = <<>> THEN <<>> ELSE <<data[1]>>
\* lines 83-89: the raw artifact is read block by block until readSync
\* returns 0, and each block is written to the container
CopyRaw(data) == data

\* lines 57-92: finalizeRawToWav(rawPath, wavPath, sampleRate): the header
\* fields written by writeWavHeader, the copied payload, and the bytes of
\* the container file
FinalizeRawToWav(raw, sampleRate) ==
  [exists |-> TRUE, riffLen |-> 36 + Len(raw.data), channels |-> 1,
   rate |-> sampleRate, bits |-> 16, dataLen |-> Len(raw.data),
   payload |-> CopyRaw(raw.data),
   bytes |-> WriteWavHeader(Len(raw.data), sampleRate) \o CopyRaw(raw.data)]

\* line 112: w.meta?.sample_rate || rate
HeaderRate(w, rate) == IF w.meta.sample_rate # 0 THEN w.meta.sample_rate ELSE rate

\* the state the writer functions work on
WState == [writers |-> writers, order |-> writersOrder, fds |-> fds,
           raw |-> rawFiles, wav |-> wavFiles]

Remove(seq, x) == SelectSeq(seq, LAMBDA y : y # x)

\* lines 95-104: openWriter(key, baseDir, meta)
OpenWriter(st, key, meta) ==
  LET rawPath == RawPath(key)
      fd == Len(st.fds) + 1
  IN  [st EXCEPT
         !.fds = Append(st.fds, [path |-> rawPath, key |-> key, open |-> TRUE,
                                 pos |-> 0, closes |-> 0, late |-> 0]),
         !.raw = [st.raw EXCEPT ![rawPath] = [exists |-> TRUE, data |-> <<>>]],
         !.writers = [st.writers EXCEPT ![key] =
                        [fd |-> fd, rawPath |-> rawPath, wavPath |-> WavOf(rawPath),
                         bytes |-> 0, meta |-> meta]],
         !.order = IF st.writers[key] = NoWriter THEN Append(st.order, key)
                   ELSE st.order]

\* lines 105-108: writeChunk(key, u8arr) for a key that has a writer
WriteChunk(st, key, buf) ==
  LET w == st.writers[key]
      f == st.fds[w.fd]
  IN  [st EXCEPT
         !.raw = [st.raw EXCEPT ![f.path].data = WriteAt(st.raw[f.path].data, f.pos, buf)],
         !.fds = [st.fds EXCEPT ![w.fd].pos = f.pos + Len(buf),
                                ![w.fd].late = IF f.open THEN f.late ELSE f.late + 1],
         !.writers = [st.writers EXCEPT ![key].bytes = w.bytes + Len(buf)]]

\* lines 109-115: closeWriter(key, rate)
CloseWriter(st, key, rate) ==
  IF st.writers[key] = NoWriter THEN st
  ELSE LET w == st.writers[key]
       IN  [st EXCEPT
              !.fds = [st.fds EXCEPT ![w.fd].open = FALSE,
                                     ![w.fd].closes = st.fds[w.fd].closes + 1],
              !.wav = [st.wav EXCEPT ![w.wavPath] =
                         FinalizeRawToWav(st.raw[w.rawPath], HeaderRate(w, rate))],
              !.writers = [st.writers EXCEPT ![key] = NoWriter],
              !.order = Remove(st.order, key)]

\* lines 365-367: for (const key of Array.from(writers.keys())) closeWriter(key, 16000)
RECURSIVE CloseAll(_, _)
CloseAll(st, keys) ==
  IF keys = <<>> THEN st
  ELSE CloseAll(CloseWriter(st, Head(keys), DefaultRate), Tail(keys))

SetW(st) ==
  /\ writers' = st.writers
  /\ writersOrder' = st.order
  /\ fds' = st.fds
  /\ rawFiles' = st.raw
  /\ wavFiles' = st.wav

InitWriters ==
  /\ writers = [k \in Keys |-> NoWriter]
  /\ writersOrder = <<>>
  /\ fds = <<>>
  /\ rawFiles = [p \in RawPaths |-> NoFile]
  /\ wavFiles = [p \in WavPaths |-> NoFile]
  /\ trackMeta = [k \in Keys |-> 0]
  /\ consoleLog = 0
  /\ written = [k \in Keys |-> <<>>]
  /\ chunksSent = 0
  /\ dropped = 0
  /\ phase = "recording"

\* lines 314-316: the webrtcOpenTrack bridge
WebrtcOpenTrack ==
  /\ phase = "recording"
  /\ Len(fds) < MaxOpens
  /\ \E key \in Keys, meta \in Metas :
       SetW(OpenWriter(WState, key, meta))
  /\ UNCHANGED <<trackMeta, consoleLog, written, chunksSent, dropped, phase, notW>>

\* lines 317-319: the webrtcWriteTrack bridge
WebrtcWriteTrack ==
  /\ phase = "recording"
  /\ chunksSent < MaxChunks
  /\ \E key \in Keys, u8 \in Chunks :
       IF writers[key] = NoWriter
       THEN /\ dropped' = dropped + 1
            /\ UNCHANGED <<writers, writersOrder, fds, rawFiles, wavFiles, written>>
       ELSE /\ SetW(WriteChunk(WState, key, ToU8(u8)))
            /\ written' = [written EXCEPT ![key] = written[key] \o ToU8(u8)]
            /\ UNCHANGED dropped
  /\ chunksSent' = chunksSent + 1
  /\ UNCHANGED <<trackMeta, consoleLog, phase, notW>>

\* lines 320-322: the webrtcCloseTrack bridge
WebrtcCloseTrack ==
  /\ phase = "recording"
  /\ \E key \in Keys : SetW(CloseWriter(WState, key, DefaultRate))
  /\ UNCHANGED <<trackMeta, consoleLog, written, chunksSent, dropped, phase, notW>>

\* line 323: the botLog bridge
BotLog ==
  /\ phase = "recording"
  /\ consoleLog < MaxLogs
  /\ consoleLog' = consoleLog + 1
  /\ UNCHANGED <<writers, writersOrder, fds, rawFiles, wavFiles, trackMeta,
                 written, chunksSent, dropped, phase, notW>>

\* webrtc-hook.js lines 74-81: the reader loop of an open track sends the
\* sample rate of its first frame in a track-meta event, once
TrackMetaEvent ==
  /\ phase = "recording"
  /\ \E key \in Keys, sr \in Rates :
       /\ writers[key] # NoWriter
       /\ trackMeta[key] = 0
       /\ trackMeta' = [trackMeta EXCEPT ![key] = sr]
  /\ UNCHANGED <<writers, writersOrder, fds, rawFiles, wavFiles, consoleLog,
                 written, chunksSent, dropped, phase, notW>>

\* lines 364-367: the end-of-run loop
FinalizeWriters ==
  /\ phase = "recording"
  /\ SetW(CloseAll(WState, writersOrder))
  /\ phase' = "ended"
  /\ UNCHANGED <<trackMeta, consoleLog, written, chunksSent, dropped, notW>>

NextWriters ==
  \/ WebrtcOpenTrack
  \/ WebrtcWriteTrack
  \/ WebrtcCloseTrack
  \/ BotLog
  \/ TrackMetaEvent
  \/ FinalizeWriters

----------------------------------------------------------------------------
(* meet-recorder-dom-audio.js: audio capture *)

\* bound of the capture model: onaudioprocess invocations
MaxFrames == 3

\* the byte arrays the page sends
AudioChunks == {<<1, 0>>, <<2, 0>>}

RECURSIVE Flatten(_)
Flatten(chunks) ==
  IF chunks = <<>> THEN <<>> ELSE Head(chunks) \o Flatten(Tail(chunks))

InitCapture ==
  /\ running = TRUE
  /\ expired = FALSE
  /\ callbacks = <<>>
  /\ audioWriteStream = [buf |-> <<>>, ended |-> FALSE]
  \* fs.createWriteStream(audioRawPath) has created the empty artifact
  /\ audioRaw = <<>>
  /\ audioWav = NoFile
  /\ captureLog = <<>>
  /\ closeCalls = 0
  /\ issuedAtClose = 0

\* lines 227-248: proc.onaudioprocess up to its await of sendAudioChunk
OnAudioProcess ==
  /\ Len(callbacks) < MaxFrames
  /\ running
  /\ \E chunk \in AudioChunks :
       callbacks' = Append(callbacks, [pc |-> "send", chunk |-> chunk])
  /\ UNCHANGED <<running, expired, audioWriteStream, audioRaw, audioWav,
                 captureLog, closeCalls, issuedAtClose, notC>>

\* lines 147-154: sendAudioChunk: the chunk is handed to the write stream,
\* which buffers it; a stream that has ended takes no more data
SendAudioChunk(c) ==
  /\ callbacks[c].pc = "send"
  /\ audioWriteStream' =
       IF audioWriteStream.ended THEN audioWriteStream
       ELSE [audioWriteStream EXCEPT !.buf = Append(@, callbacks[c].chunk)]
  /\ callbacks' = [callbacks EXCEPT ![c].pc = "ack"]
  /\ UNCHANGED <<running, expired, audioRaw, audioWav, captureLog, closeCalls,
                 issuedAtClose, notC>>

\* the write stream writes its oldest buffered chunk to the raw artifact
Flush ==
  /\ audioWriteStream.buf # <<>>
  /\ audioRaw' = audioRaw \o Head(audioWriteStream.buf)
  /\ audioWriteStream' = [audioWriteStream EXCEPT !.buf = Tail(@)]
  /\ UNCHANGED <<running, expired, callbacks, audioWav, captureLog, closeCalls,
                 issuedAtClose, notC>>

\* line 225: the capture duration runs out
Expire ==
  /\ ~expired
  /\ expired' = TRUE
  /\ UNCHANGED <<running, callbacks, audioWriteStream, audioRaw, audioWav,
                 captureLog, closeCalls, issuedAtClose, notC>>

\* lines 248-260: the callback resumes after sendAudioChunk; once the
\* duration has run out it clears running and calls closeAudioFile
AfterSend(c) ==
  /\ callbacks[c].pc = "ack"
  /\ IF expired
     THEN /\ running' = FALSE
          /\ captureLog' = Append(captureLog, "Audio capture stopping...")
          /\ callbacks' = [callbacks EXCEPT ![c].pc = "close"]
     ELSE /\ callbacks' = [callbacks EXCEPT ![c].pc = "done"]
          /\ UNCHANGED <<running, captureLog>>
  /\ UNCHANGED <<expired, audioWriteStream, audioRaw, audioWav, closeCalls,
                 issuedAtClose, notC>>

\* lines 156-164: closeAudioFile: end() the stream, then at once read the
\* raw artifact from disk into the container
CloseAudioFile(c) ==
  /\ callbacks[c].pc = "close"
  /\ closeCalls' = closeCalls + 1
  /\ issuedAtClose' = Len(audioRaw) + Len(Flatten(audioWriteStream.buf))
  /\ audioWriteStream' = [audioWriteStream EXCEPT !.ended = TRUE]
  /\ audioWav' = FinalizeRawToWav([exists |-> TRUE, data |-> audioRaw], DefaultRate)
  /\ captureLog' = Append(captureLog, "WAV saved")
  /\ callbacks' = [callbacks EXCEPT ![c].pc = "closed"]
  /\ UNCHANGED <<running, expired, audioRaw, notC>>

\* lines 260-261: the callback resumes after closeAudioFile
AfterClose(c) ==
  /\ callbacks[c].pc = "closed"
  /\ captureLog' = Append(captureLog, "Audio file closed.")
  /\ callbacks' = [callbacks EXCEPT ![c].pc = "done"]
  /\ UNCHANGED <<running, expired, audioWriteStream, audioRaw, audioWav,
                 closeCalls, issuedAtClose, notC>>

NextCapture ==
  \/ OnAudioProcess
  \/ \E c \in 1..Len(callbacks) : SendAudioChunk(c)
  \/ Flush
  \/ Expire
  \/ \E c \in 1..Len(callbacks) : AfterSend(c)
  \/ \E c \in 1..Len(callbacks) : CloseAudioFile(c)
  \/ \E c \in 1..Len(callbacks) : AfterClose(c)

----------------------------------------------------------------------------
(* meetbot-v2.js: the participant directory of the page (UserManager), the *)
(* per-track transform handlers, and the functions the controlling         *)
(* process exposes to them                                                 *)

\* directory scrapes of a run
MaxScrapes == 2
\* participant elements one scrape finds
MaxDomElems == 1
\* frames handed to the transform handlers
MaxTrackFrames == 3
\* invocations of sendParticipantAudioChunk
MaxParticipantChunks == 34

\* window.userManager (line 1285) and the const userManager of line 1397
Insts == {"window", "local"}

\* a participant id: the text before the first variable part, and the
\* variable parts as numbers
Pid(kind, n, i) == [kind |-> kind, n |-> n, i |-> i]
NoId == Pid("none", 0, 0)

\* data-participant-id attributes the scrape can read (0: no attribute)
DomIds == {0, 1}
\* text of a participant element
DomNames == {"", "You", "Ann", "Ann Pin"}
DomElems == [id : DomIds, name : DomNames]
DomScrapes == SeqsUpTo(DomElems, MaxDomElems)
\* <video> elements in the document
Videos == {0, 1}

\* tracks, and the id of the first stream of the track event (0: undefined)
TrackIds == {1}
StreamIds == {0, 1}
\* receiver.getContributingSources(): source, audioLevel in thousandths
Sources == {<<>>, <<[source |-> 7, audioLevel |-> 5]>>}
\* peak amplitude of a frame in millionths of full scale
Amps == {0, 100, 1000}

\* line 10 and line 975: SILENCE_THRESHOLD = 0.0001, in millionths
SilenceThreshold == 100
\* line 815: consecutive silent chunks that are still written
MaxSilentWritten == 30

\* functions the script of page.evaluate (lines 973-1710) defines in the page;
\* convertToMono, calculateMaxAmplitude and convertFloat32ToInt16 are
\* functions of the controlling process (lines 142-175) and do not exist there
PageFunctions == {"f32ToI16LEBytes"}
\* lines 1238-1282: the methods of the page's ReceiverManager
ReceiverManagerMethods ==
  {"addReceiver", "getReceiverId", "mapSourceToStream",
   "getStreamIdBySourceId", "getReceiverByStreamId"}
\* line 429: userManager = { extractParticipantsFromDOM: () => {} }
NodeUserManagerMethods == {"extractParticipantsFromDOM"}

\* lines 978-986: f32ToI16LEBytes of a one-sample frame of amplitude a
F32ToI16LEBytes(a) ==
  LET s == (a * 32767) \div 1000000
  IN  <<s % 256, s \div 256>>

\* chunks handed to sendParticipantAudioChunk: the little-endian bytes
ChunkArrs == {<<>>, <<0, 0>>, <<3, 0>>, <<4, 0>>}

\* line 771: new Int16Array(buffer.buffer, ...), the samples of the bytes
Int16(lo, hi) ==
  LET u == lo + 256 * hi IN IF u >= 32768 THEN u - 65536 ELSE u
Samples(arr) == [k \in 1..(Len(arr) \div 2) |-> Int16(arr[2 * k - 1], arr[2 * k])]
Abs(x) == IF x < 0 THEN 0 - x ELSE x
\* lines 772-783: maxAmplitude < SILENCE_THRESHOLD with amplitude = |s| / 32768
IsSilentChunk(arr) ==
  \A k \in 1..Len(Samples(arr)) :
    Abs(Samples(arr)[k]) * 1000000 < SilenceThreshold * 32768

\* line 139: sanitizeFilename, on the names that reach it
SanitizeTable ==
  [n \in {"unknown", "A/B", "A_B", "You", "Ann", "Ann Pin", "Unknown", "Mixed Audio",
          "Participant 1", "Unknown Speaker", "Unknown Participant"} |->
     IF n = "A/B" THEN "A_B" ELSE n]
SanitizeFilename(name) == SanitizeTable[name]

\* lines 496-573: cleanDisplayName, on the names that reach it ('Pin' is one
\* of the removed control texts)
CleanTable ==
  [n \in {"You", "Ann", "Ann Pin", "Unknown", "Mixed Audio", "Participant 1",
          "Unknown Speaker"} |-> IF n = "Ann Pin" THEN "Ann" ELSE n]
CleanDisplayName(name) == CleanTable[name]

NoStream == [has |-> FALSE, consecutiveSilence |-> 0, ended |-> FALSE]
NoSummary == [written |-> FALSE]
NoFrame == [handler |-> 0, track |-> 0, stream |-> 0, amp |-> 0, sources |-> <<>>,
            sent |-> FALSE, pid |-> NoId, threw |-> FALSE,
            closed |-> 0, enqueued |-> FALSE]
NoChunk == [pid |-> NoId, valid |-> FALSE, silent |-> FALSE, run |-> 0,
            written |-> FALSE, before |-> 0, stats |-> FALSE]
NoAdd == [pid |-> NoId, name |-> "", known |-> FALSE, joinTime |-> 0,
          entry |-> [participantId |-> NoId, displayName |-> "", joinTime |-> 0]]

\* the ids sendParticipantAudioChunk is called with
ChunkPids == {Pid("dom", 1, 0)}
ChunkNames == {"A/B", "A_B"}

NoUser == [participantId |-> NoId, displayName |-> "", joinTime |-> 0]

\* Map.has / Map.get on a users Map
HasUser(us, pid) == \E k \in 1..Len(us) : us[k].participantId = pid
GetUser(us, pid) ==
  IF HasUser(us, pid)
  THEN us[CHOOSE k \in 1..Len(us) : us[k].participantId = pid]
  ELSE NoUser

FindNone(mp, id) == {}
\* lines 471-473: meetingMetadata.participants.findIndex(...), as the set of
\* the indexes that match
FindIndex(mp, id) == {k \in 1..Len(mp) : mp[k].participant_id = id}

\* lines 460-494: updateMeetingParticipants(participantData) for one participant
UpdateMeetingParticipants(mp, participant) ==
  LET p == IF participant.display_name # ""
           THEN [participant EXCEPT !.display_name = CleanDisplayName(participant.display_name)]
           ELSE participant
      found == FindIndex(mp, p.participant_id)
  IN  IF found # {}
      THEN [mp EXCEPT ![CHOOSE k \in found : \A j \in found : k <= j] = p]
      ELSE Append(mp, p)

\* line 1089: displayName || 'Unknown'
OrUnknown(name) == IF name = "" THEN "Unknown" ELSE name

\* lines 1085-1107: UserManager.addUser(participantId, displayName) on the
\* pair of the users Map and the controlling process's participants list
AddUser(st, pid, name, now) ==
  IF HasUser(st.users, pid) THEN st
  ELSE [users |-> Append(st.users, [participantId |-> pid,
                                    displayName |-> OrUnknown(name),
                                    joinTime |-> now]),
        meeting |-> UpdateMeetingParticipants(st.meeting,
                      [participant_id |-> pid, display_name |-> OrUnknown(name),
                       join_time |-> now])]

\* lines 1113-1122: UserManager.associateStream(participantId, streamId)
AssociateStream(us, map, pid, streamId) ==
  IF streamId = 0 \/ ~HasUser(us, pid) THEN map
  ELSE [map EXCEPT ![streamId] = pid]

\* lines 1124-1130: UserManager.getParticipantByStreamId(streamId)
GetParticipantByStreamId(us, map, streamId) ==
  IF map[streamId] # NoId THEN GetUser(us, map[streamId]) ELSE NoUser

\* lines 1132-1145: UserManager.getFirstParticipant()
GetFirstParticipant(us) ==
  LET named == {k \in 1..Len(us) : us[k].displayName \notin {"", "You", "Unknown"}}
  IN  IF named # {} THEN us[CHOOSE k \in named : \A j \in named : k <= j]
      ELSE IF Len(us) > 0 THEN us[1]
      ELSE NoUser

\* lines 1205-1228: the loop over the participant elements found
RECURSIVE AddElems(_, _, _, _)
AddElems(st, elems, k, now) ==
  IF k > Len(elems) THEN st
  ELSE LET e == elems[k]
           pid == IF e.id # 0 THEN Pid("dom", e.id, 0) ELSE Pid("gen", now, k)
       IN  AddElems(AddUser(st, pid, e.name, now), elems, k + 1, now)

\* lines 1181-1185: one synthetic participant per <video> element
RECURSIVE AddVideos(_, _, _, _)
AddVideos(st, n, k, now) ==
  IF k >= n THEN st
  ELSE AddVideos(AddUser(st, Pid("synthetic", now, k), "Participant 1", now), n, k + 1, now)

\* lines 1148-1234: UserManager.extractParticipantsFromDOM() when the queries
\* give the elements elems and the document holds videos <video> elements
ExtractParticipantsFromDOM(st, elems, videos, now) ==
  IF Len(elems) = 0
  THEN IF videos > 0 THEN AddVideos(st, videos, 0, now)
       ELSE AddUser(st, Pid("synthetic_mixed", now, 0), "Mixed Audio", now)
  ELSE AddElems(st, elems, 1, now)

StreamKeys == StreamIds \cup {10 + t : t \in TrackIds}

InitParticipants ==
  /\ users = [inst \in Insts |-> <<>>]
  /\ streamToParticipant = [inst \in Insts |-> [s \in StreamKeys |-> NoId]]
  /\ meetingParticipants = <<>>
  /\ participantDirs = {}
  /\ participantAudioStreams = [p \in ChunkPids |-> NoStream]
  /\ participantsSummary = NoSummary
  /\ pageLog = 0
  /\ pclock = 1
  /\ nframes = 0
  /\ nchunks = 0
  /\ silentRun = [p \in ChunkPids |-> 0]
  /\ lastFrame = NoFrame
  /\ lastChunk = NoChunk
  /\ lastAdd = NoAdd

\* lines 1401, 1404 (and 432, 1301 for window.userManager): one directory scrape
Scrape(inst) ==
  /\ pclock <= MaxScrapes
  /\ participantsSummary = NoSummary
  /\ \E elems \in DomScrapes, videos \in Videos :
       LET st == ExtractParticipantsFromDOM(
                   [users |-> users[inst], meeting |-> meetingParticipants],
                   elems, videos, pclock)
       IN  /\ users' = [users EXCEPT ![inst] = st.users]
           /\ meetingParticipants' = st.meeting
           /\ lastAdd' =
                IF Len(elems) > 0 /\ elems[1].id # 0
                THEN [pid |-> Pid("dom", elems[1].id, 0), name |-> elems[1].name,
                      known |-> HasUser(users[inst], Pid("dom", elems[1].id, 0)),
                      joinTime |-> GetUser(users[inst], Pid("dom", elems[1].id, 0)).joinTime,
                      entry |-> GetUser(st.users, Pid("dom", elems[1].id, 0))]
                ELSE NoAdd
  /\ pclock' = pclock + 1
  /\ UNCHANGED <<streamToParticipant, participantDirs, participantAudioStreams,
                 participantsSummary, pageLog, nframes, nchunks, silentRun,
                 lastFrame, lastChunk, notA>>

StreamOf(streams, pid) == IF pid \in DOMAIN streams THEN streams[pid] ELSE NoStream
RunOf(pid) == IF pid \in DOMAIN silentRun THEN silentRun[pid] ELSE 0
Put(f, x, v) == [y \in DOMAIN f \cup {x} |-> IF y = x THEN v ELSE f[y]]

\* lines 586-860: sendParticipantAudioChunk(participantId, displayName, arr)
\* on the state ns of the controlling process; written tells whether the
\* chunk went to the participant's write stream
SendParticipantAudioChunk(ns, pid, name, arr, now) ==
  LET off == [ns EXCEPT !.written = FALSE]
      dir == <<SanitizeFilename(IF name = "" THEN "unknown" ELSE name), pid>>
      newDir == dir \notin ns.dirs
      \* lines 605-682: the directories are made; line 637 then calls
      \* userManager.getUser on the object of line 429
      made == [off EXCEPT !.dirs = @ \cup {dir}]
      listed == [made EXCEPT !.meeting =
                   Append(@, [participant_id |-> pid,
                              display_name |-> IF name = "" THEN "unknown" ELSE name,
                              join_time |-> now])]
      ns1 == IF newDir THEN listed ELSE off
      \* lines 685-758: get or create the write stream
      s0 == IF StreamOf(ns1.streams, pid).has THEN StreamOf(ns1.streams, pid)
            ELSE [has |-> TRUE, consecutiveSilence |-> 0, ended |-> FALSE]
      \* lines 770-815: silence statistics
      isSilent == IsSilentChunk(arr)
      cs == IF isSilent THEN s0.consecutiveSilence + 1 ELSE 0
      skipSilence == isSilent /\ cs > MaxSilentWritten
      \* lines 818-852: the write
      wr == ~s0.ended /\ ~skipSilence
      s1 == [s0 EXCEPT !.consecutiveSilence = cs]
  IN  IF Len(arr) = 0 THEN off                            \* lines 592-595
      ELSE IF newDir /\ "getUser" \notin NodeUserManagerMethods
      THEN made                                           \* lines 640-644
      ELSE [ns1 EXCEPT !.streams = Put(ns1.streams, pid, s1), !.written = wr]

\* line 656 is the one place that puts a participant into participantMetadata;
\* it is reached when lines 605-644 made the directory and did not return
HasMetadata(ns, pid) ==
  /\ "getUser" \in NodeUserManagerMethods
  /\ \E dir \in ns.dirs : dir[2] = pid
\* lines 823-836: a chunk that was written sets silence_stats of the current
\* track when it is not silent, consecutiveSilence (as lines 798-809 have
\* left it) is above 0 and the participant has metadata with a track; ns is
\* the state the invocation leaves
SetsSilenceStats(ns, pid, arr) ==
  /\ ns.written
  /\ ~IsSilentChunk(arr)
  /\ StreamOf(ns.streams, pid).consecutiveSilence > 0
  /\ HasMetadata(ns, pid)

\* one invocation of sendParticipantAudioChunk, with the bookkeeping of the
\* chunk's place in its run of silent chunks; mp is the participants list
\* the invocation finds
Deliver(pid, name, arr, mp) ==
  LET r == SendParticipantAudioChunk(
             [streams |-> participantAudioStreams, dirs |-> participantDirs,
              meeting |-> mp, written |-> FALSE], pid, name, arr, pclock)
      run == IF Len(arr) = 0 THEN RunOf(pid)
             ELSE IF IsSilentChunk(arr) THEN RunOf(pid) + 1 ELSE 0
  IN  /\ participantAudioStreams' = r.streams
      /\ participantDirs' = r.dirs
      /\ meetingParticipants' = r.meeting
      /\ silentRun' = Put(silentRun, pid, run)
      /\ lastChunk' = [pid |-> pid, valid |-> Len(arr) > 0,
                       silent |-> Len(arr) > 0 /\ IsSilentChunk(arr),
                       run |-> run, written |-> r.written,
                       before |-> StreamOf(participantAudioStreams, pid).consecutiveSilence,
                       stats |-> Len(arr) > 0 /\ SetsSilenceStats(r, pid, arr)]
      /\ nchunks' = nchunks + 1

\* the page calls window.sendParticipantAudioChunk
SendChunk ==
  /\ nchunks < MaxParticipantChunks
  /\ \E pid \in ChunkPids, name \in ChunkNames, arr \in ChunkArrs :
       Deliver(pid, name, arr, meetingParticipants)
  /\ UNCHANGED <<users, streamToParticipant, participantsSummary, pageLog, pclock,
                 nframes, lastFrame, lastAdd, notA>>

\* the page's ReceiverManager.sourceToStream Map: mapSourceToStream is never
\* called, so no source has a stream
SourceToStream(source) == 0

\* lines 1506-1527: the loudest contributing source (0: none)
RECURSIVE Loudest(_, _, _, _)
Loudest(sources, k, maxLevel, best) ==
  IF k > Len(sources) THEN best
  ELSE IF sources[k].source # 0 /\ sources[k].audioLevel > maxLevel
       THEN Loudest(sources, k + 1, sources[k].audioLevel, sources[k].source)
       ELSE Loudest(sources, k + 1, maxLevel, best)
LoudestSource(sources) ==
  LET l == Loudest(sources, 1, 0, 0)
  IN  IF l = 0 /\ Len(sources) > 0 /\ sources[1].source # 0 THEN sources[1].source ELSE l

\* lines 1529-1583: the participant of a frame; st is the local UserManager
\* with the participants list of the controlling process
Resolve2(st, map, sources, streamId, trackId, now) ==
  LET loudestSource == LoudestSource(sources)
      bySource == IF loudestSource # 0 /\ SourceToStream(loudestSource) # 0
                  THEN GetParticipantByStreamId(st.users, map, SourceToStream(loudestSource))
                  ELSE NoUser
      byStream == IF bySource = NoUser /\ streamId # 0
                  THEN GetParticipantByStreamId(st.users, map, streamId)
                  ELSE NoUser
      first == GetFirstParticipant(st.users)
      synth == Pid("unknown", trackId, 0)
      st4 == AddUser(st, synth, "Unknown Speaker", now)
  IN  IF loudestSource # 0 /\ "getStreamIdForSource" \notin ReceiverManagerMethods
      THEN [st |-> st, map |-> map, user |-> NoUser, threw |-> TRUE]
      ELSE IF bySource # NoUser
      THEN [st |-> st, map |-> map, user |-> bySource, threw |-> FALSE]
      ELSE IF byStream # NoUser
      THEN [st |-> st, user |-> byStream, threw |-> FALSE,
            map |-> AssociateStream(st.users, map, byStream.participantId, streamId)]
      ELSE IF first # NoUser
      THEN [st |-> st, user |-> first, threw |-> FALSE,
            map |-> AssociateStream(st.users, map, first.participantId, streamId)]
      ELSE [st |-> st4, user |-> GetUser(st4.users, synth), threw |-> FALSE,
            map |-> AssociateStream(st4.users, map, synth, streamId)]

\* the catch of a transform handler (lines 1364-1367, 1618-1621): the error
\* is logged, the frame is closed, nothing is sent
TransformThrows(frame) ==
  /\ lastFrame' = [frame EXCEPT !.threw = TRUE, !.closed = @ + 1]
  /\ pageLog' = pageLog + 1
  /\ UNCHANGED <<users, streamToParticipant, meetingParticipants, participantDirs,
                 participantAudioStreams, nchunks, silentRun, lastChunk>>

\* a transform handler returns without sending: the onTrack pipeline closes
\* the frame (lines 1325-1329), the per-participant pipeline passes it on
\* with controller.enqueue(frame) and does not close it (lines 1495-1498)
TransformSkips(frame) ==
  /\ lastFrame' = IF frame.handler = 1
                  THEN [frame EXCEPT !.closed = @ + 1]
                  ELSE [frame EXCEPT !.enqueued = TRUE]
  /\ UNCHANGED <<users, streamToParticipant, meetingParticipants, participantDirs,
                 participantAudioStreams, pageLog, nchunks, silentRun, lastChunk>>

\* lines 1312-1368: transform(frame, controller) of the onTrack pipeline
\* (window.userManager); the stream id is streams[0]?.id || track.id
TransformOnTrack ==
  /\ nframes < MaxTrackFrames
  /\ \E track \in TrackIds, stream \in StreamIds, amp \in Amps :
       LET frame == [handler |-> 1, track |-> track, stream |-> stream, amp |-> amp,
                     sources |-> <<>>, sent |-> FALSE, pid |-> NoId, threw |-> FALSE,
                     closed |-> 0, enqueued |-> FALSE]
           streamId == IF stream # 0 THEN stream ELSE 10 + track
           us == users["window"]
           map == streamToParticipant["window"]
           participant == GetParticipantByStreamId(us, map, streamId)
           first == GetFirstParticipant(us)
           user == IF participant # NoUser THEN participant
                   ELSE IF first # NoUser THEN first
                   ELSE [participantId |-> Pid("unknown", pclock, 1),
                         displayName |-> "Unknown Participant", joinTime |-> 0]
           \* line 1360: Array.from of the Int16Array, one number per sample
           i16 == <<(amp * 32767) \div 1000000>>
       IN  IF "convertToMono" \notin PageFunctions        \* line 1319
           THEN TransformThrows(frame)
           ELSE IF amp < SilenceThreshold                 \* lines 1323-1329
           THEN TransformSkips(frame)
           ELSE /\ streamToParticipant' =
                     [streamToParticipant EXCEPT !["window"] =
                        IF participant # NoUser THEN map
                        ELSE AssociateStream(us, map, user.participantId, streamId)]
                /\ Deliver(user.participantId, user.displayName,
                           <<i16[1] % 256>>, meetingParticipants)
                \* line 1363: controller.enqueue(frame), no frame.close()
                /\ lastFrame' = [frame EXCEPT !.sent = TRUE, !.pid = user.participantId,
                                              !.enqueued = TRUE]
                /\ UNCHANGED <<users, pageLog>>
  /\ nframes' = nframes + 1
  /\ UNCHANGED <<participantsSummary, pclock, lastAdd, notA>>

\* lines 1457-1622: transform(frame, controller) of the per-participant
\* pipeline (the local userManager and receiverManager)
TransformPerParticipant ==
  /\ nframes < MaxTrackFrames
  /\ \E track \in TrackIds, stream \in StreamIds, amp \in Amps, sources \in Sources :
       LET frame == [handler |-> 2, track |-> track, stream |-> stream, amp |-> amp,
                     sources |-> sources, sent |-> FALSE, pid |-> NoId, threw |-> FALSE,
                     closed |-> 0, enqueued |-> FALSE]
           r == Resolve2([users |-> users["local"], meeting |-> meetingParticipants],
                         streamToParticipant["local"], sources, stream, track, pclock)
       IN  IF amp < SilenceThreshold                      \* lines 1490-1498
           THEN TransformSkips(frame)
           ELSE IF "getContributingSources" \notin ReceiverManagerMethods  \* line 1504
           THEN TransformThrows(frame)
           ELSE IF r.threw                                \* line 1535
           THEN TransformThrows(frame)
           ELSE /\ users' = [users EXCEPT !["local"] = r.st.users]
                /\ streamToParticipant' = [streamToParticipant EXCEPT !["local"] = r.map]
                /\ Deliver(r.user.participantId, r.user.displayName,
                           F32ToI16LEBytes(amp), r.st.meeting)
                \* line 1617: controller.enqueue(frame), no frame.close()
                /\ lastFrame' = [frame EXCEPT !.sent = TRUE, !.pid = r.user.participantId,
                                              !.enqueued = TRUE]
                /\ UNCHANGED pageLog
  /\ nframes' = nframes + 1
  /\ UNCHANGED <<participantsSummary, pclock, lastAdd, notA>>

\* lines 924-965: the participants summary closeAudioFiles writes
Summary(mp) ==
  IF Len(mp) > 0
  THEN [k \in 1..Len(mp) |-> [participant_id |-> mp[k].participant_id,
                              display_name |-> mp[k].display_name]]
  ELSE <<[participant_id |-> Pid("mixed_audio", 0, 0),
          display_name |-> "Mixed Audio Only"]>>

\* lines 862-968: closeAudioFiles()
CloseAudioFiles ==
  /\ participantsSummary = NoSummary
  /\ participantAudioStreams' =
       [p \in DOMAIN participantAudioStreams |->
          [participantAudioStreams[p] EXCEPT !.ended = participantAudioStreams[p].has]]
  /\ participantsSummary' = [written |-> TRUE, entries |-> Summary(meetingParticipants)]
  /\ UNCHANGED <<users, streamToParticipant, meetingParticipants, participantDirs,
                 pageLog, pclock, nframes, nchunks, silentRun, lastFrame, lastChunk,
                 lastAdd, notA>>

NextParticipants ==
  \/ \E inst \in Insts : Scrape(inst)
  \/ TransformOnTrack
  \/ TransformPerParticipant
  \/ CloseAudioFiles

NextSilence ==
  \/ SendChunk
  \/ CloseAudioFiles

\* calls of updateMeetingParticipants by the page, and the participants of
\* one call
MaxUpdates == 2
MaxListed == 2
ListPids == {Pid("dom", 1, 0), Pid("dom", 2, 0)}
ListNames == {"You", "Ann"}
\* line 462: the participants of a call, one object or an array
ListArrs(now) ==
  SeqsUpTo([participant_id : ListPids, display_name : ListNames,
            join_time : {now}], MaxListed) \ {<<>>}

RECURSIVE UpdateAll(_, _)
\* line 464: participants.forEach(...)
UpdateAll(mp, arr) ==
  IF arr = <<>> THEN mp
  ELSE UpdateAll(UpdateMeetingParticipants(mp, arr[1]), Tail(arr))

\* lines 460-494: the page calls window.updateMeetingParticipants
PageUpdatesParticipants ==
  /\ pclock <= MaxUpdates
  /\ participantsSummary = NoSummary
  /\ \E arr \in ListArrs(pclock) :
       meetingParticipants' = UpdateAll(meetingParticipants, arr)
  /\ pclock' = pclock + 1
  /\ UNCHANGED <<users, streamToParticipant, participantDirs, participantAudioStreams,
                 participantsSummary, pageLog, nframes, nchunks, silentRun,
                 lastFrame, lastChunk, lastAdd, notA>>

\* the chunks sent while the participants list is watched
MaxListChunks == 2
\* the first chunks of audio arrive while the directory is scraped
FirstChunks ==
  /\ nchunks < MaxListChunks
  /\ SendChunk

NextMeeting ==
  \/ PageUpdatesParticipants
  \/ FirstChunks
  \/ CloseAudioFiles

----------------------------------------------------------------------------
(* botv3.js: recordGoogleMeet *)

NoKey == <<>>

InitRun ==
  \* lines 289-334: the browser is launched, the session is initialised and
  \* the bridges are exposed
  /\ runPc = "exposed"
  /\ sessionEnded = FALSE
  /\ failedKey = NoKey

\* the page can call a bridge from exposeFunction (lines 314-322) on; the
\* browser is closed only at line 375
PageAlive == runPc \in {"exposed", "waiting", "recording", "aborted"}

\* the page calls webrtcOpenTrack / webrtcWriteTrack / webrtcCloseTrack
PageOpensTrack == PageAlive /\ WebrtcOpenTrack
PageWritesTrack == PageAlive /\ WebrtcWriteTrack
PageClosesTrack == PageAlive /\ WebrtcCloseTrack

\* lines 346-358: the init script is added, joinMeeting returns, the hook is
\* activated and waitForMeetingAdmission is called
JoinMeeting ==
  /\ runPc = "exposed"
  /\ runPc' = "waiting"
  /\ UNCHANGED <<sessionEnded, failedKey, wvars, notRW>>

\* lines 276-281: a leave button is visible; lines 360-362: the run waits
Admitted ==
  /\ runPc = "waiting"
  /\ runPc' = "recording"
  /\ UNCHANGED <<sessionEnded, failedKey, wvars, notRW>>

\* line 283: throw new Error('Not admitted within timeout'); nothing in
\* recordGoogleMeet catches it, line 388 logs it
AdmissionTimeout ==
  /\ runPc = "waiting"
  /\ runPc' = "aborted"
  /\ UNCHANGED <<sessionEnded, failedKey, wvars, notRW>>

\* lines 109-115: closeWriter(key, rate) when finalizeRawToWav throws (line
\* 113): the descriptor is closed, no container is made and the entry stays
CloseWriterThrows(st, key) ==
  LET w == st.writers[key]
  IN  [st EXCEPT !.fds = [st.fds EXCEPT ![w.fd].open = FALSE,
                                        ![w.fd].closes = st.fds[w.fd].closes + 1]]

\* lines 365-367 when the closeWriter of the failAt-th key throws
RECURSIVE CloseLoopThrows(_, _, _)
CloseLoopThrows(st, keys, failAt) ==
  IF failAt = 1 THEN CloseWriterThrows(st, Head(keys))
  ELSE CloseLoopThrows(CloseWriter(st, Head(keys), DefaultRate), Tail(keys), failAt - 1)

\* lines 364-368: the end-of-run loop and session.end(); failAt = 0: no
\* closeWriter throws
EndOfRun ==
  /\ runPc = "recording"
  /\ phase = "recording"
  /\ \E failAt \in 0..Len(writersOrder) :
       IF failAt = 0
       THEN /\ SetW(CloseAll(WState, writersOrder))
            /\ sessionEnded' = TRUE
            /\ failedKey' = NoKey
            /\ runPc' = "done"
       ELSE /\ SetW(CloseLoopThrows(WState, writersOrder, failAt))
            /\ sessionEnded' = sessionEnded
            /\ failedKey' = writersOrder[failAt]
            /\ runPc' = "threw"
  /\ phase' = "ended"
  /\ UNCHANGED <<trackMeta, consoleLog, written, chunksSent, dropped, notRW>>

NextRun ==
  \/ PageOpensTrack
  \/ PageWritesTrack
  \/ PageClosesTrack
  \/ JoinMeeting
  \/ Admitted
  \/ AdmissionTimeout
  \/ EndOfRun

----------------------------------------------------------------------------
(* RTCPeerConnection interceptors: meetbot-v2.js and webrtc-hook.js *)

\* bounds of the interceptor model
MaxPcs == 2
MaxListeners == 2
MaxCallbacks == 2

\* the interceptors of the repository: "node" is class RTCInterceptor of
\* meetbot-v2.js lines 67-127, "page" the class of lines 989-1043 that
\* page.evaluate installs when recording starts, "hook" the init script
\* webrtc-hook.js
RtcImpls == {"node", "page", "hook"}

Listener(kind, n) == [kind |-> kind, n |-> n]
Call(who, n) == [who |-> who, n |-> n]
NoTrackEvent == [pc |-> 0, hooked |-> FALSE, pageListeners |-> 0, calls |-> <<>>]

\* no page yet
NoImpl == "none"

InitIntercept ==
  /\ rtcImpl = NoImpl
  /\ rtcInstalled = FALSE
  /\ peerConnections = <<>>
  /\ onTrackCallbacks = <<>>
  /\ lastTrackEvent = NoTrackEvent

\* a page is opened with one of the interceptors
PageLoads ==
  /\ rtcImpl = NoImpl
  /\ \E impl \in RtcImpls :
       /\ rtcImpl' = impl
       \* an init script runs before any script of the page (webrtc-hook.js
       \* lines 183-193); the two classes are installed by a later call
       /\ rtcInstalled' = (impl = "hook")
       \* the hook's one callback is the body of its track listener (lines
       \* 168-179), which can throw inside its try
       /\ onTrackCallbacks' \in (IF impl = "hook" THEN {<<FALSE>>, <<TRUE>>}
                                 ELSE {<<>>})
  /\ UNCHANGED <<peerConnections, lastTrackEvent, notI>>

\* lines 72-118, lines 995-1034 and 1072-1073: install()
Install ==
  /\ rtcImpl # NoImpl
  /\ ~rtcInstalled
  /\ rtcInstalled' = TRUE
  /\ UNCHANGED <<rtcImpl, peerConnections, onTrackCallbacks, lastTrackEvent, notI>>

\* lines 120-122, 1036-1038: onTrack(callback); throws tells whether the
\* callback throws when it is called
OnTrack ==
  /\ rtcImpl \notin {NoImpl, "hook"}
  /\ Len(onTrackCallbacks) < MaxCallbacks
  /\ \E throws \in BOOLEAN : onTrackCallbacks' = Append(onTrackCallbacks, throws)
  /\ UNCHANGED <<rtcImpl, rtcInstalled, peerConnections, lastTrackEvent, notI>>

\* the page runs new RTCPeerConnection(...): the replaced constructor (lines
\* 76-105, 999-1021; webrtc-hook.js 185-191 and 164-181) or the native one
NewPeerConnection ==
  /\ rtcImpl # NoImpl
  /\ Len(peerConnections) < MaxPcs
  /\ peerConnections' = Append(peerConnections,
       [hooked |-> rtcInstalled,
        listeners |-> IF rtcInstalled /\ rtcImpl \in {"page", "hook"}
                      THEN <<Listener("interceptor", 0)>> ELSE <<>>])
  /\ UNCHANGED <<rtcImpl, rtcInstalled, onTrackCallbacks, lastTrackEvent, notI>>

PageListeners(pc) == SelectSeq(pc.listeners, LAMBDA l : l.kind # "interceptor")

\* the page runs pc.addEventListener('track', listener); lines 81-102 replace
\* the method of an intercepted connection and register a wrapper
PageAddsListener ==
  /\ \E i \in 1..Len(peerConnections) :
       LET pc == peerConnections[i]
           n == Len(PageListeners(pc)) + 1
       IN  /\ n <= MaxListeners
           /\ peerConnections' = [peerConnections EXCEPT ![i].listeners =
                Append(@, Listener(IF pc.hooked /\ rtcImpl = "node" THEN "wrapped"
                                   ELSE "page", n))]
  /\ UNCHANGED <<rtcImpl, rtcInstalled, onTrackCallbacks, lastTrackEvent, notI>>

\* lines 89-95: every callback is called inside its own try
RECURSIVE CallbacksCaught(_, _)
CallbacksCaught(cbs, k) ==
  IF k > Len(cbs) THEN <<>> ELSE <<Call("callback", k)>> \o CallbacksCaught(cbs, k + 1)

\* line 1019: forEach(cb => cb(e, pc)); a throw leaves the listener
RECURSIVE CallbacksUncaught(_, _)
CallbacksUncaught(cbs, k) ==
  IF k > Len(cbs) THEN <<>>
  ELSE IF cbs[k] THEN <<Call("callback", k)>>
  ELSE <<Call("callback", k)>> \o CallbacksUncaught(cbs, k + 1)

\* what one registered listener does with a track event
Invoke(l) ==
  IF l.kind = "page" THEN <<Call("page", l.n)>>
  ELSE IF l.kind = "wrapped"                              \* lines 84-96
  THEN <<Call("page", l.n)>> \o CallbacksCaught(onTrackCallbacks, 1)
  ELSE IF rtcImpl = "page"                                \* lines 1017-1020
  THEN CallbacksUncaught(onTrackCallbacks, 1)
  ELSE CallbacksCaught(onTrackCallbacks, 1)               \* webrtc-hook.js 167-180

\* the browser dispatches an event to the listeners in registration order;
\* an exception a listener throws is reported and the dispatch goes on
RECURSIVE Dispatch(_, _)
Dispatch(listeners, k) ==
  IF k > Len(listeners) THEN <<>>
  ELSE Invoke(listeners[k]) \o Dispatch(listeners, k + 1)

\* a track event fires on a peer connection
TrackEvent ==
  /\ \E i \in 1..Len(peerConnections) :
       lastTrackEvent' =
         [pc |-> i, hooked |-> peerConnections[i].hooked,
          pageListeners |-> Len(PageListeners(peerConnections[i])),
          calls |-> Dispatch(peerConnections[i].listeners, 1)]
  /\ UNCHANGED <<rtcImpl, rtcInstalled, peerConnections, onTrackCallbacks, notI>>

NextIntercept ==
  \/ PageLoads
  \/ Install
  \/ OnTrack
  \/ NewPeerConnection
  \/ PageAddsListener
  \/ TrackEvent

----------------------------------------------------------------------------
(* webrtc-hook.js: pending tracks, activation and the reader loops *)

\* startProcessor calls the model follows
MaxReaders == 2
\* frames the readers read, all together
MaxReads == 2

\* track.id of the inbound tracks
HookTrackIds == {"t1", "t2"}

\* lines 68-70: numberOfChannels and sampleRate of a frame
FrameFormats == {[sample_rate |-> 48000, channels |-> 1],
                 [sample_rate |-> 16000, channels |-> 2]}
NoFormat == [sample_rate |-> 0, channels |-> 0]

NoRead == [reader |-> 0, format |-> NoFormat, firstFrame |-> FALSE,
           failedBefore |-> FALSE, threw |-> FALSE, events |-> <<>>]

\* lines 152-153
InitHook ==
  /\ ACTIVE = FALSE
  /\ pending = {}
  /\ readers = <<>>
  /\ lastRead = NoRead

\* lines 46-61: startProcessor makes a key of its own, opens the writer and
\* gets a reader of the track; firstFrame starts true
NewReader(track) ==
  [track |-> track, state |-> "reading", firstFrame |-> TRUE, frames |-> 0,
   first |-> NoFormat, meta |-> <<>>, inFlight |-> 0, failedBefore |-> FALSE]

RECURSIVE StartAll(_, _)
StartAll(rs, ids) ==
  IF ids = {} THEN rs
  ELSE LET t == CHOOSE x \in ids : TRUE
       IN  StartAll(Append(rs, NewReader(t)), ids \ {t})

\* lines 155-159: window.webrtcActivate
WebrtcActivate ==
  /\ ACTIVE' = TRUE
  /\ readers' = StartAll(readers, pending)
  /\ pending' = {}
  /\ UNCHANGED <<lastRead, notH>>

\* lines 167-180: the hook's listener of the track event
HookTrackEvent ==
  /\ \E kind \in {"audio", "video"}, id \in HookTrackIds :
       IF kind # "audio"
       THEN UNCHANGED <<pending, readers>>
       ELSE IF ~ACTIVE
            THEN /\ Len(readers) + Cardinality(pending \cup {id}) <= MaxReaders
                 /\ pending' = pending \cup {id}
                 /\ UNCHANGED readers
            ELSE /\ Len(readers) < MaxReaders
                 /\ readers' = Append(readers, NewReader(id))
                 /\ UNCHANGED pending
  /\ UNCHANGED <<ACTIVE, lastRead, notH>>

RECURSIVE FramesRead(_)
FramesRead(rs) ==
  IF rs = <<>> THEN 0 ELSE Head(rs).frames + FramesRead(Tail(rs))

\* line 75: firstFrame = false
FirstFramePending(r) == r.firstFrame
FirstFrameCleared(r) == FALSE

\* lines 136-137: the catch of the iteration logs and falls through to the
\* next reader.read()
PumpRejects(r) == "failed"
PumpContinues(r) == r.state

\* lines 65-140: one iteration of the reader loop
ReadFrame(i) ==
  /\ readers[i].state = "reading"
  /\ FramesRead(readers) < MaxReads
  /\ \E fmt \in FrameFormats, copyThrows \in BOOLEAN :
       LET r == readers[i]
           meta == IF r.firstFrame THEN <<"track-meta">> ELSE <<>>
           body == IF copyThrows THEN <<"processor err">> ELSE <<"webrtcWriteTrack">>
       IN  /\ readers' = [readers EXCEPT ![i] =
                 [r EXCEPT !.firstFrame = FirstFrameCleared(r),
                           !.frames = @ + 1,
                           !.first = IF r.frames = 0 THEN fmt ELSE @,
                           !.meta = IF r.firstFrame THEN Append(@, fmt) ELSE @,
                           !.inFlight = IF copyThrows THEN @ ELSE @ + 1,
                           !.failedBefore = @ \/ copyThrows,
                           !.state = IF copyThrows THEN PumpContinues(r) ELSE @]]
           /\ lastRead' = [reader |-> i, format |-> fmt, firstFrame |-> r.frames = 0,
                           failedBefore |-> r.failedBefore, threw |-> copyThrows,
                           events |-> meta \o body \o <<"close">>]
  /\ UNCHANGED <<ACTIVE, pending, notH>>

\* line 66: reader.read() reports done once the track has ended
TrackEnded(i) ==
  /\ readers[i].state = "reading"
  /\ readers' = [readers EXCEPT ![i].state = "done"]
  /\ UNCHANGED <<ACTIVE, pending, lastRead, notH>>

\* botv3.js lines 317-319: the promise of a webrtcWriteTrack call settles
WriteAcknowledged(i) ==
  /\ readers[i].inFlight > 0
  /\ readers' = [readers EXCEPT ![i].inFlight = @ - 1]
  /\ UNCHANGED <<ACTIVE, pending, lastRead, notH>>

NextHook ==
  \/ WebrtcActivate
  \/ HookTrackEvent
  \/ \E i \in 1..Len(readers) : ReadFrame(i)
  \/ \E i \in 1..Len(readers) : TrackEnded(i)
  \/ \E i \in 1..Len(readers) : WriteAcknowledged(i)

----------------------------------------------------------------------------
(* botv3.js: one track from openWriter to closeWriter *)

\* chunks written to the track
MaxWrites == 4

\* the key of the track
TrackKey == <<"a">>

\* lines 314-316: webrtcOpenTrack for the track
TrackOpen ==
  /\ Len(fds) = 0
  /\ \E meta \in Metas : SetW(OpenWriter(WState, TrackKey, meta))
  /\ UNCHANGED <<trackMeta, consoleLog, written, chunksSent, dropped, phase, notW>>

\* lines 317-319: webrtcWriteTrack for the track
TrackWrite ==
  /\ writers[TrackKey] # NoWriter
  /\ chunksSent < MaxWrites
  /\ \E u8 \in Chunks :
       /\ SetW(WriteChunk(WState, TrackKey, ToU8(u8)))
       /\ written' = [written EXCEPT ![TrackKey] = written[TrackKey] \o ToU8(u8)]
  /\ chunksSent' = chunksSent + 1
  /\ UNCHANGED <<trackMeta, consoleLog, dropped, phase, notW>>

\* lines 320-322, 365-367: closeWriter for the track
TrackClose ==
  /\ writers[TrackKey] # NoWriter
  /\ SetW(CloseWriter(WState, TrackKey, DefaultRate))
  /\ UNCHANGED <<trackMeta, consoleLog, written, chunksSent, dropped, phase, notW>>

NextTrack ==
  \/ TrackOpen
  \/ TrackWrite
  \/ TrackClose

----------------------------------------------------------------------------
(* botv3.js: RecordingSession, the track events and the end of the run *)

\* track events the bridge handles
MaxSessionEvents == 3

\* the keys of the tracks
SessionKeys == {<<"a">>, <<"/">>}
\* sample_rate and channels of a track-meta payload; 0 stands for a missing
\* (falsy) value
MetaPayloads == {[sample_rate |-> 0, channels |-> 0],
                 [sample_rate |-> 48000, channels |-> 1]}

NoTrack == [present |-> FALSE, sample_rate |-> 0, channels |-> 0,
            ended_at |-> FALSE, wav |-> <<>>]
\* line 135: this.tracks = {}
NoTracks == [k \in SessionKeys |-> NoTrack]
NoEvent == [n |-> 0, type |-> "", key |-> <<>>, known |-> FALSE]

\* lines 139-146: init() has written the three documents
InitSession ==
  /\ tracks = NoTracks
  /\ tracksIndexDoc = NoTracks
  /\ trackDocs = NoTracks
  /\ metaEnded = FALSE
  /\ metaDoc = [ended_at |-> FALSE]
  /\ handlers = <<>>
  /\ endPc = "running"
  /\ lastEvent = NoEvent

\* line 154: wav: `track_${key}.wav`
IndexWav(key) == <<"track_", key, ".wav">>

\* lines 149-156: the part of onTrackOpen before its first await
OnTrackOpen(t, key) ==
  [t EXCEPT ![key] = [present |-> TRUE, sample_rate |-> 0, channels |-> 0,
                      ended_at |-> FALSE, wav |-> IndexWav(key)]]

AnyTrack(t, key) == TRUE
\* lines 164, 173: if (!key || !this.tracks[key]) return
KnownTrack(t, key) == t[key].present

\* lines 163-166: the part of onTrackMeta before its first await
OnTrackMeta(t, key, sample_rate, channels) ==
  IF ~KnownTrack(t, key) THEN t
  ELSE [t EXCEPT ![key].sample_rate = IF sample_rate # 0 THEN sample_rate ELSE @,
                 ![key].channels = IF channels # 0 THEN channels ELSE @]

\* lines 172-174: the part of onTrackClose before its first await
OnTrackClose(t, key) ==
  IF ~KnownTrack(t, key) THEN t ELSE [t EXCEPT ![key].ended_at = TRUE]

\* a handler that got past its guard goes on to write the tracks index
\* (lines 157, 167, 175) and then the document of the track (159, 168, 177)
Suspended(type, key) == [type |-> type, key |-> key, pc |-> "index", snap |-> NoTracks]

Event(type, key, known) ==
  [n |-> lastEvent.n + 1, type |-> type, key |-> key, known |-> known]

PageOpen == endPc # "closed"

\* webrtc-hook.js lines 51-54: startProcessor sends track-open and calls
\* webrtcOpenTrack; botv3.js lines 327 and 314-316
TrackOpenEvent ==
  /\ PageOpen
  /\ lastEvent.n < MaxSessionEvents
  /\ \E key \in SessionKeys :
       /\ ~tracks[key].present
       /\ writers[key] = NoWriter
       /\ tracks' = OnTrackOpen(tracks, key)
       /\ handlers' = Append(handlers, Suspended("track-open", key))
       /\ lastEvent' = Event("track-open", key, FALSE)
       /\ SetW(OpenWriter(WState, key, [sample_rate |-> 0]))
  /\ UNCHANGED <<tracksIndexDoc, trackDocs, metaEnded, metaDoc, endPc>>
  /\ UNCHANGED <<trackMeta, consoleLog, written, chunksSent, dropped, phase, notSW>>

\* webrtc-hook.js lines 77-79 and botv3.js line 328: a track-meta event
TrackMetaArrives ==
  /\ PageOpen
  /\ lastEvent.n < MaxSessionEvents
  /\ \E key \in SessionKeys, p \in MetaPayloads :
       /\ tracks' = OnTrackMeta(tracks, key, p.sample_rate, p.channels)
       /\ handlers' = IF KnownTrack(tracks, key)
                      THEN Append(handlers, Suspended("track-meta", key))
                      ELSE handlers
       /\ lastEvent' = Event("track-meta", key, tracks[key].present)
  /\ UNCHANGED <<tracksIndexDoc, trackDocs, metaEnded, metaDoc, endPc, wvars, notSW>>

\* webrtc-hook.js lines 144-147: the ended listener of the track sends
\* track-close and calls webrtcCloseTrack; botv3.js lines 329 and 320-322
TrackCloseEvent ==
  /\ PageOpen
  /\ lastEvent.n < MaxSessionEvents
  /\ \E key \in SessionKeys :
       /\ tracks' = OnTrackClose(tracks, key)
       /\ handlers' = IF KnownTrack(tracks, key)
                      THEN Append(handlers, Suspended("track-close", key))
                      ELSE handlers
       /\ lastEvent' = Event("track-close", key, tracks[key].present)
       /\ SetW(CloseWriter(WState, key, DefaultRate))
  /\ UNCHANGED <<tracksIndexDoc, trackDocs, metaEnded, metaDoc, endPc>>
  /\ UNCHANGED <<trackMeta, consoleLog, written, chunksSent, dropped, phase, notSW>>

Without(seq, i) == SubSeq(seq, 1, i - 1) \o SubSeq(seq, i + 1, Len(seq))

\* lines 30-33 for the tracks index: run() starts when the earlier writes of
\* the file are done and serialises the table as it is then
SerializeIndex(i) ==
  /\ handlers[i].pc = "index"
  /\ \A j \in 1..Len(handlers) : handlers[j].pc # "index_w"
  /\ handlers' = [handlers EXCEPT ![i].pc = "index_w", ![i].snap = tracks]
  /\ UNCHANGED <<tracks, tracksIndexDoc, trackDocs, metaEnded, metaDoc, endPc,
                 lastEvent, wvars, notSW>>

\* line 35 for the tracks index: the rename puts the serialised table in place
RenameIndex(i) ==
  /\ handlers[i].pc = "index_w"
  /\ tracksIndexDoc' = handlers[i].snap
  /\ handlers' = [handlers EXCEPT ![i].pc = "doc", ![i].snap = NoTracks]
  /\ UNCHANGED <<tracks, trackDocs, metaEnded, metaDoc, endPc, lastEvent, wvars, notSW>>

\* lines 159, 168, 177: the document of the track is written from the
\* entry as it is when run() starts, and the handler returns
WriteTrackDoc(i) ==
  /\ handlers[i].pc = "doc"
  /\ trackDocs' = [trackDocs EXCEPT ![handlers[i].key] = tracks[handlers[i].key]]
  /\ handlers' = Without(handlers, i)
  /\ UNCHANGED <<tracks, tracksIndexDoc, metaEnded, metaDoc, endPc, lastEvent,
                 wvars, notSW>>

\* lines 365-368 up to the first await of end(): the writers are closed and
\* this.meta.ended_at is set
EndOfRunLoop ==
  /\ endPc = "running"
  /\ SetW(CloseAll(WState, writersOrder))
  /\ metaEnded' = TRUE
  /\ endPc' = "ending"
  /\ UNCHANGED <<tracks, tracksIndexDoc, trackDocs, metaDoc, handlers, lastEvent>>
  /\ UNCHANGED <<trackMeta, consoleLog, written, chunksSent, dropped, phase, notSW>>

\* line 202: meeting_metadata.json is written and end() returns
SessionEndReturns ==
  /\ endPc = "ending"
  /\ metaDoc' = [ended_at |-> metaEnded]
  /\ endPc' = "ended"
  /\ UNCHANGED <<tracks, tracksIndexDoc, trackDocs, metaEnded, handlers, lastEvent,
                 wvars, notSW>>

\* line 375: browser.close()
BrowserClose ==
  /\ endPc = "ended"
  /\ endPc' = "closed"
  /\ UNCHANGED <<tracks, tracksIndexDoc, trackDocs, metaEnded, metaDoc, handlers,
                 lastEvent, wvars, notSW>>

NextSession ==
  \/ TrackOpenEvent
  \/ TrackMetaArrives
  \/ TrackCloseEvent
  \/ \E i \in 1..Len(handlers) : SerializeIndex(i)
  \/ \E i \in 1..Len(handlers) : RenameIndex(i)
  \/ \E i \in 1..Len(handlers) : WriteTrackDoc(i)
  \/ EndOfRunLoop
  \/ SessionEndReturns
  \/ BrowserClose

----------------------------------------------------------------------------
(* botv3.js: the start of recordGoogleMeet *)

\* lines 307-355: the awaited steps between the launch of the browser and
\* the wait for admission, in program order
StartSteps ==
  <<[at |-> "run", does |-> "ensureDir", what |-> "meetingDir"],          \* 307
    [at |-> "run", does |-> "ensureDir", what |-> "trackDir"],            \* 309
    [at |-> "init", does |-> "ensureDir", what |-> "baseDir"],            \* 140
    [at |-> "init", does |-> "ensureDir", what |-> "tracksDir"],          \* 141
    [at |-> "init", does |-> "ensureDir", what |-> "partsDir"],           \* 142
    [at |-> "init", does |-> "writeJsonAtomic", what |-> "metaFile"],     \* 143
    [at |-> "init", does |-> "writeJsonAtomic", what |-> "tracksIndex"],  \* 144
    [at |-> "init", does |-> "writeJsonAtomic", what |-> "summaryFile"],  \* 145
    [at |-> "run", does |-> "exposeFunction", what |-> "webrtcOpenTrack"],   \* 314
    [at |-> "run", does |-> "exposeFunction", what |-> "webrtcWriteTrack"],  \* 317
    [at |-> "run", does |-> "exposeFunction", what |-> "webrtcCloseTrack"],  \* 320
    [at |-> "run", does |-> "exposeFunction", what |-> "botLog"],            \* 323
    [at |-> "run", does |-> "exposeFunction", what |-> "webrtcEvent"],       \* 325
    [at |-> "run", does |-> "addInitScript", what |-> "hook-mini.js"],    \* 347
    [at |-> "run", does |-> "joinMeeting", what |-> "page"],              \* 351
    [at |-> "run", does |-> "evaluate", what |-> "webrtcMini.activate"]>> \* 355

\* the steps that touch the file system, and joinMeeting, can fail
CanFail(step) == step.does \in {"ensureDir", "writeJsonAtomic", "joinMeeting"}

\* startPc once the steps are done: waitForMeetingAdmission is running
Waiting == Len(StartSteps) + 1
\* startPc once recordGoogleMeet has rejected
Rejected == 0

InitStart ==
  /\ startPc = 1
  /\ startErr = 0
  /\ bridges = {}
  /\ pageNavigated = FALSE

\* what a step that succeeds leaves behind
Exposes(step) ==
  IF step.does = "exposeFunction" THEN {step.what} ELSE {}
\* joinMeeting sends the page to the meeting: page.goto(meetingUrl), line 232
Navigates(step) == step.does = "joinMeeting"

\* an awaited step succeeds
StartStep ==
  /\ startPc \in 1..Len(StartSteps)
  /\ bridges' = bridges \cup Exposes(StartSteps[startPc])
  /\ pageNavigated' = (pageNavigated \/ Navigates(StartSteps[startPc]))
  /\ startPc' = startPc + 1
  /\ UNCHANGED <<startErr, notU>>

Swallowed(pc) == pc + 1
\* lines 307-351: no await of the start is inside a try, so a rejection
\* leaves recordGoogleMeet at once; line 388 logs it
Propagates(pc) == Rejected

\* an awaited step rejects
StartStepFails ==
  /\ startPc \in 1..Len(StartSteps)
  /\ CanFail(StartSteps[startPc])
  /\ startErr' = startPc
  /\ startPc' = Propagates(startPc)
  /\ pageNavigated' = (pageNavigated \/ Navigates(StartSteps[startPc]))
  /\ UNCHANGED <<bridges, notU>>

\* the meeting page calls webrtcOpenTrack: it can once the page has been
\* sent to the meeting and the bridge exists (the browser stays open after
\* a rejection: line 375 is not reached)
PageOpensStorage ==
  /\ pageNavigated
  /\ "webrtcOpenTrack" \in bridges
  /\ WebrtcOpenTrack

NextStart ==
  \/ StartStep
  \/ StartStepFails
  \/ PageOpensStorage

----------------------------------------------------------------------------
(* webrtc-hook.js, meetbot-v2.js: the samples of a frame *)

\* a sample is a whole number of steps of the sample format; SampleUnit
\* steps are the sample 1.0
SampleUnit == 1000
\* the channels of a frame (frame.numberOfChannels, line 67) are 1..MaxChannels
MaxChannels == 2
\* line 68: frame.numberOfFrames of the frames read here
NumFr == 2
\* every sample from -2.0 to 2.0
AllSamples == (0 - 2 * SampleUnit)..(2 * SampleUnit)
\* the samples of the frames read here: out of range, the two ends of the
\* range and the smallest samples beside zero
SampleValues ==
  {0 - 2 * SampleUnit, 0 - SampleUnit, 0 - 1, 1, SampleUnit, 2 * SampleUnit}

\* what the handling of samples leaves alone
notP == <<jvars, wvars, cvars, avars, rvars, ivars, hvars, svars, uvars,
          gvars>>

NoPcm == [numCh |-> 0, samples |-> <<>>]

InitPcm ==
  /\ pcmFrame = NoPcm
  /\ pcmPath = "none"
  /\ pcmMono = <<>>
  /\ pcmBytes = <<>>

Unclipped(x) == x
\* webrtc-hook.js line 39, meetbot-v2.js line 146: Math.max(-1, Math.min(1, x))
Clip(x) ==
  IF x > SampleUnit THEN SampleUnit
  ELSE IF x < 0 - SampleUnit THEN 0 - SampleUnit
  ELSE x

\* the integer part of num / den (den > 0): a store of a number into 16 bits
\* drops the fraction first
Trunc(num, den) ==
  IF num < 0 THEN 0 - ((0 - num) \div den) ELSE num \div den
\* DataView.setInt16 (line 40) and the store into an Int16Array (meetbot-v2.js
\* line 147) keep the integer modulo 2^16, read as a signed 16-bit number
ToInt16(n) == ((n + 32768) % 65536) - 32768
\* line 40: s < 0 ? s * 0x8000 : s * 0x7FFF
Scale(s) == IF s < 0 THEN 32768 ELSE 32767
\* lines 39-40: one sample to its 16-bit number
SampleToI16(x) ==
  LET s == Clip(x) IN ToInt16(Trunc(s * Scale(s), SampleUnit))
\* meetbot-v2.js lines 142-150
ConvertFloat32ToInt16(float32Array) ==
  [i \in 1..Len(float32Array) |-> SampleToI16(float32Array[i])]
\* webrtc-hook.js lines 35-43: the bytes of out, two per sample, low byte first
F32ToI16(f32) ==
  [k \in 1..(2 * Len(f32)) |->
     LE16(SampleToI16(f32[(k + 1) \div 2]) % 65536)[IF k % 2 = 1 THEN 1 ELSE 2]]

RECURSIVE SeqSum(_)
\* let s = 0; for (...) s += ...
SeqSum(seq) == IF seq = <<>> THEN 0 ELSE seq[1] + SeqSum(Tail(seq))
\* the store of num / den into a Float32Array: the nearest value of the
\* sample format, the even one of two that are equally near
Fround(num, den) ==
  LET q == num \div den
      r == num % den
  IN  IF 2 * r < den THEN q
      ELSE IF 2 * r > den THEN q + 1
      ELSE IF q % 2 = 0 THEN q ELSE q + 1

\* lines 86-91: copyTo with format 'f32-planar' gives the plane of one channel
CopyPlanar(frame, ch) == frame.samples[ch]
\* the planes one after the other
CopyPlaneByPlane(frame) ==
  LET numFr == Len(frame.samples[1])
  IN  [k \in 1..(frame.numCh * numFr) |->
         frame.samples[((k - 1) \div numFr) + 1][((k - 1) % numFr) + 1]]
\* lines 101-105: copyTo with format 'f32' gives the samples interleaved,
\* numFr * numCh of them
CopyInterleaved(frame) ==
  LET numFr == Len(frame.samples[1])
  IN  [k \in 1..(frame.numCh * numFr) |->
         frame.samples[((k - 1) % frame.numCh) + 1][((k - 1) \div frame.numCh) + 1]]

\* lines 85-99: the planar path
MonoPlanar(frame) ==
  LET numCh == frame.numCh
      chBuf == [ch \in 1..numCh |-> CopyPlanar(frame, ch)]
  IN  IF numCh = 1 THEN chBuf[1]
      ELSE [i \in 1..Len(chBuf[1]) |->
              Fround(SeqSum([ch \in 1..numCh |-> chBuf[ch][i]]), numCh)]
\* lines 100-114: the interleaved fallback
MonoInterleaved(frame) ==
  LET numCh == frame.numCh
      inter == CopyInterleaved(frame)
  IN  IF numCh = 1 THEN inter
      ELSE [i \in 1..(Len(inter) \div numCh) |->
              LET base == (i - 1) * numCh
              IN  Fround(SeqSum(SubSeq(inter, base + 1, base + numCh)), numCh)]
\* meetbot-v2.js lines 163-178
ConvertToMono(audioData, numberOfChannels) ==
  IF numberOfChannels = 1 THEN audioData
  ELSE [i \in 1..(Len(audioData) \div numberOfChannels) |->
          Fround(SeqSum(SubSeq(audioData, (i - 1) * numberOfChannels + 1,
                               i * numberOfChannels)),
                 numberOfChannels)]

\* lines 64-141: one frame is read; the planar copy is tried first, the
\* interleaved copy if it throws, and line 136 drops the frame if that
\* throws too; line 129 converts the mono samples
ReadPcmFrame ==
  /\ pcmPath = "none"
  /\ \E numCh \in 1..MaxChannels, path \in {"planar", "interleaved", "dropped"} :
       \E samples \in [1..numCh -> [1..NumFr -> SampleValues]] :
         LET frame == [numCh |-> numCh, samples |-> samples]
             mono == IF path = "planar" THEN MonoPlanar(frame)
                     ELSE IF path = "interleaved" THEN MonoInterleaved(frame)
                     ELSE <<>>
         IN  /\ pcmFrame' = frame
             /\ pcmPath' = path
             /\ pcmMono' = mono
             /\ pcmBytes' = IF path = "dropped" THEN <<>> ELSE F32ToI16(mono)
  /\ UNCHANGED notP

\* lines 138-140: finally { frame.close() }, and the loop reads on
ClosePcmFrame ==
  /\ pcmPath # "none"
  /\ pcmFrame' = NoPcm
  /\ pcmPath' = "none"
  /\ pcmMono' = <<>>
  /\ pcmBytes' = <<>>
  /\ UNCHANGED notP

NextPcm ==
  \/ ReadPcmFrame
  \/ ClosePcmFrame

----------------------------------------------------------------------------
(* webrtc-hook.js, hook-mini.js: the installation in a document *)

\* the two scripts; each has its own installed flag on window
\* (__webrtcHookInstalled, __webrtcMiniInstalled) and its own flag on a peer
\* connection (__hookedTrack, __webrtcMini)
HookScripts == {"webrtc-hook.js", "hook-mini.js"}
\* the times one script runs in a document
MaxScriptRuns == 2
\* the peer connections the page makes in a document
MaxHookPcs == 2
\* the track events dispatched in a document
MaxTrackEvents == 2

\* what the installation leaves alone
notG == <<jvars, wvars, cvars, avars, rvars, ivars, hvars, svars, uvars, pvars>>

\* a peer connection as the native constructor returns it
NativePc == [flags |-> {}, listeners |-> [s \in HookScripts |-> 0]]

InitInstall ==
  /\ hookFlags = {}
  /\ wrappers = <<>>
  /\ scriptRuns = [s \in HookScripts |-> 0]
  /\ hookPcs = <<>>
  /\ handledLast = [s \in HookScripts |-> 0]
  /\ trackEvents = 0

NeverInstalled(flags, script) == FALSE
\* webrtc-hook.js line 12, hook-mini.js line 12: if (window.__...Installed) return
AlreadyInstalled(flags, script) == script \in flags

\* webrtc-hook.js lines 164-181 (attachTrackListener), hook-mini.js lines
\* 128-163 (attach): the flag of the peer connection is tested and set, and
\* one 'track' listener is added
Attach(pc, script) ==
  IF script \in pc.flags THEN pc
  ELSE [flags |-> pc.flags \cup {script},
        listeners |-> [pc.listeners EXCEPT ![script] = @ + 1]]

RECURSIVE Construct(_, _)
\* webrtc-hook.js lines 186-190, hook-mini.js lines 168-172: the construct
\* trap of a wrapper makes the peer connection with what it wraps, then
\* attaches to it; ws are the wrappers, innermost first
Construct(ws, n) ==
  IF n = 0 THEN NativePc ELSE Attach(Construct(ws, n - 1), ws[n])

\* a script runs in the document (addInitScript, or any later injection);
\* the replacement of window.RTCPeerConnection (webrtc-hook.js 184-204,
\* hook-mini.js 166-188) can fail in both of its forms
RunScript(script) ==
  /\ scriptRuns[script] < MaxScriptRuns
  /\ scriptRuns' = [scriptRuns EXCEPT ![script] = @ + 1]
  /\ IF AlreadyInstalled(hookFlags, script)
     THEN UNCHANGED <<hookFlags, wrappers>>
     ELSE /\ hookFlags' = hookFlags \cup {script}
          /\ \E installed \in BOOLEAN :
               wrappers' = IF installed THEN Append(wrappers, script) ELSE wrappers
  /\ UNCHANGED <<hookPcs, handledLast, trackEvents, notG>>

\* the page makes a peer connection with window.RTCPeerConnection
PageMakesPc ==
  /\ Len(hookPcs) < MaxHookPcs
  /\ hookPcs' = Append(hookPcs, Construct(wrappers, Len(wrappers)))
  /\ UNCHANGED <<hookFlags, wrappers, scriptRuns, handledLast, trackEvents, notG>>

\* a peer connection dispatches a 'track' event with an audio track: every
\* listener on it runs once (webrtc-hook.js 167-180, hook-mini.js 132-162)
TrackEventFires(i) ==
  /\ trackEvents < MaxTrackEvents
  /\ trackEvents' = trackEvents + 1
  /\ handledLast' = hookPcs[i].listeners
  /\ UNCHANGED <<hookFlags, wrappers, scriptRuns, hookPcs, notG>>

\* the page goes to a new document: a new window, without flags, with the
\* native constructor and without the peer connections of the old one
NewDocument ==
  /\ wrappers # <<>>
  /\ hookFlags' = {}
  /\ wrappers' = <<>>
  /\ hookPcs' = <<>>
  /\ UNCHANGED <<scriptRuns, handledLast, trackEvents, notG>>

NextInstall ==
  \/ \E script \in HookScripts : RunScript(script)
  \/ PageMakesPc
  \/ \E i \in 1..Len(hookPcs) : TrackEventFires(i)
  \/ NewDocument

----------------------------------------------------------------------------
(* Specifications *)
Init == InitJson /\ InitWriters /\ InitCapture /\ InitParticipants /\ InitRun
        /\ InitIntercept /\ InitHook /\ InitSession /\ InitStart
        /\ InitPcm /\ InitInstall

SpecJson == Init /\ [][NextJson]_vars
SpecJsonExdev == Init /\ [][NextJsonExdev]_vars
SpecJsonFault == Init /\ [][NextJsonFault]_vars
SpecWriters == Init /\ [][NextWriters]_vars
SpecCapture == Init /\ [][NextCapture]_vars
SpecParticipants == Init /\ [][NextParticipants]_vars
SpecSilence == Init /\ [][NextSilence]_vars
SpecMeeting == Init /\ [][NextMeeting]_vars
SpecRun == Init /\ [][NextRun]_vars
SpecIntercept == Init /\ [][NextIntercept]_vars
SpecHook == Init /\ [][NextHook]_vars
SpecTrack == Init /\ [][NextTrack]_vars
SpecSession == Init /\ [][NextSession]_vars
SpecStart == Init /\ [][NextStart]_vars
SpecPcm == Init /\ [][NextPcm]_vars
SpecInstall == Init /\ [][NextInstall]_vars

----------------------------------------------------------------------------
(* Properties of the metadata write queue *)

AllDone == \A c \in 1..Len(calls) : calls[c].pc = "done"

\* C3: once every onParticipants call has returned, also calls that ran
\* concurrently, participants_summary.json on disk equals the in-memory
\* participants table and holds an entry for every id either call handed in.
C3_NoLostUpdate ==
  AllDone =>
    /\ disk[SummaryFile] = Doc(StringifyTable(participants))
    /\ \A c \in 1..Len(calls) : \A i \in 1..Len(calls[c].arr) :
          calls[c].arr[i].id # "" =>
            calls[c].arr[i].id \in DOMAIN disk[SummaryFile].val

\* two calls overlapped (the second call's last write was queued before the
\* first call's last write, so the second started while the first was
\* suspended), both returned, and each brought a participant
C3_Witness ==
  /\ Len(calls) = 2
  /\ AllDone
  /\ calls[1].prom > calls[2].prom
  /\ \A c \in 1..2 : \E i \in 1..Len(calls[c].arr) : calls[c].arr[i].id # ""

\* C4 (as amended): for every path, the write steps run one at a time in
\* the order in which they were put on the queue of that path: a write
\* has started only if every write queued earlier for that path is settled.
C4_Serialized ==
  \A p \in 1..Len(promises) : \A q \in 1..Len(promises) :
    (p < q /\ promises[p].file = promises[q].file /\ promises[q].ran)
      => promises[p].st \in Settled

\* a write that was chained behind an unsettled write of the same path has run
C4_Witness ==
  \E q \in 1..Len(promises) :
    /\ promises[q].prev # 0
    /\ promises[q].ran
    /\ promises[q].st = "fulfilled"

\* C4 (original): the write steps of a path run in the order in which the
\* writeJsonAtomic calls for that path were made: when a write step starts,
\* no writeJsonAtomic call made earlier for the same path is still waiting.
C4_CallOrder ==
  [][\A p \in 1..Len(promises) :
       (promises[p].st = "queued" /\ promises'[p].st = "writing") =>
         \A c \in 1..Len(calls) :
           ~(/\ calls[c].pc = "wj_dir"
             /\ calls[c].file = promises[p].file
             /\ calls[c].ticket < promises[p].ticket)]_vars

\* C5: the destination path never holds a partially written document.
C5_NeverPartial == \A f \in Files : disk[f] # PartialDoc

\* C6: a failed write does not keep later writes to the same path from
\* being performed: a writeJsonAtomic call is rejected only if its own
\* write step ran and failed.
C6_LaterWritesRun ==
  \A p \in 1..Len(promises) : promises[p].st = "rejected" => promises[p].ran

----------------------------------------------------------------------------
(* Properties of the track writers *)

FdsOf(k) == {i \in 1..Len(fds) : fds[i].key = k}
\* the key was opened once and its writer has been closed
OpenedOnceAndClosed(k) ==
  /\ Cardinality(FdsOf(k)) = 1
  /\ \A i \in FdsOf(k) : ~fds[i].open

\* C1: after two distinct keys have each been opened and closed, the payload
\* of each key's container is the concatenation of the chunks written for
\* that key, in order.
C1_OwnChunksOnly ==
  \A k1 \in Keys : \A k2 \in Keys :
    (k1 # k2 /\ OpenedOnceAndClosed(k1) /\ OpenedOnceAndClosed(k2)) =>
      /\ wavFiles[WavPath(k1)].payload = written[k1]
      /\ wavFiles[WavPath(k2)].payload = written[k2]

\* C2: when closeWriter closes a track whose sample rate was sent in a
\* track-meta event, the container header carries that rate.
C2_DiscoveredRate ==
  [][\A k \in Keys :
       (writers[k] # NoWriter /\ writers'[k] = NoWriter /\ trackMeta[k] # 0) =>
         wavFiles'[WavPath(k)].rate = trackMeta[k]]_vars

\* C7: a chunk for a key without a writer is dropped without a change to the
\* writers table or to any artifact, and a log entry is produced.
C7_DropIsLogged ==
  [][dropped' > dropped =>
       /\ writers' = writers
       /\ rawFiles' = rawFiles
       /\ wavFiles' = wavFiles
       /\ consoleLog' > consoleLog]_vars

\* C8: for every key the artifact's file handle is opened at most once,
\* closed at most once and never written to after it was closed.
C8_HandleLifecycle ==
  \A k \in Keys :
    /\ Cardinality(FdsOf(k)) <= 1
    /\ \A i \in FdsOf(k) : fds[i].closes <= 1 /\ fds[i].late = 0

----------------------------------------------------------------------------
(* Properties of the audio capture *)

\* C9: finalization is executed at most once in a run.
C9_FinalizedOnce == closeCalls <= 1

\* C10: the finalized container holds every byte that had been handed to
\* the write stream before finalization started.
C10_NothingTruncated ==
  audioWav # NoFile => audioWav.dataLen = issuedAtClose

----------------------------------------------------------------------------
(* meetbot-v2.js: per-participant audio and the participant directory *)

\* C11: of the chunks that arrive for one participant stream, a silent chunk
\* is written iff it is one of the first 30 of its run of consecutive silent
\* chunks, every non-silent chunk is written, and a non-silent chunk sets the
\* consecutive-silence counter to zero
C11_SilenceRule ==
  lastChunk.valid =>
    /\ lastChunk.written <=> (~lastChunk.silent \/ lastChunk.run <= MaxSilentWritten)
    /\ ~lastChunk.silent =>
         StreamOf(participantAudioStreams, lastChunk.pid).consecutiveSilence = 0

\* C12: every non-silent frame a track's transform handler processes is
\* delivered to sendParticipantAudioChunk with a participant id, whatever the
\* stream association table and the participant directory hold
C12_NonSilentDelivered ==
  (lastFrame.handler # 0 /\ lastFrame.amp >= SilenceThreshold) =>
    (lastFrame.sent /\ lastFrame.pid # NoId)

\* the participant the stated order of resolution gives for a frame
ResolutionOrder(us, map, sources, streamId, trackId) ==
  LET loudest == LoudestSource(sources)
      bySource == IF loudest # 0 /\ SourceToStream(loudest) # 0
                  THEN GetParticipantByStreamId(us, map, SourceToStream(loudest))
                  ELSE NoUser
      byStream == IF streamId # 0 THEN GetParticipantByStreamId(us, map, streamId)
                  ELSE NoUser
      known == GetFirstParticipant(us)
  IN  IF bySource # NoUser THEN bySource.participantId
      ELSE IF byStream # NoUser THEN byStream.participantId
      ELSE IF known # NoUser THEN known.participantId
      ELSE Pid("unknown", trackId, 0)

IsPlaceholder(u) ==
  \/ u.displayName \in {"", "Unknown", "You"}
  \/ u.participantId.kind \in {"synthetic", "synthetic_mixed", "gen", "unknown"}

\* C14: getFirstParticipant yields only a participant that is not a
\* placeholder; when every known participant is a placeholder it yields none
C14_FirstIsNoPlaceholder ==
  \A inst \in Insts :
    LET first == GetFirstParticipant(users[inst])
    IN  /\ first # NoUser => ~IsPlaceholder(first)
        /\ (\A k \in 1..Len(users[inst]) : IsPlaceholder(users[inst][k]))
             => first = NoUser

\* C16: each UserManager and the participants list of the controlling process
\* hold one entry per participant id, and an addUser for an id the
\* UserManager already holds leaves the entry's join time and sets its
\* display name to the one observed
C16_Upsert ==
  /\ \A inst \in Insts : \A j, k \in 1..Len(users[inst]) :
       users[inst][j].participantId = users[inst][k].participantId => j = k
  /\ \A j, k \in 1..Len(meetingParticipants) :
       meetingParticipants[j].participant_id = meetingParticipants[k].participant_id
         => j = k
  /\ lastAdd.known =>
       /\ lastAdd.entry.joinTime = lastAdd.joinTime
       /\ lastAdd.entry.displayName = OrUnknown(lastAdd.name)

\* at least one scrape ran and every scrape so far found no participant
\* element: no user came from an element (lines 1205-1228)
AllScrapesEmpty ==
  /\ pclock > 1
  /\ \A inst \in Insts : \A k \in 1..Len(users[inst]) :
       users[inst][k].participantId.kind \in {"synthetic", "synthetic_mixed"}

\* C17: when every scrape found no participant element, the participants
\* list holds exactly one placeholder entry however many scrapes ran, the
\* participants summary closeAudioFiles writes holds exactly that entry, and
\* a frame the track delivers is attributed to that placeholder
C17_OnePlaceholder ==
  AllScrapesEmpty =>
    /\ Len(meetingParticipants) = 1
    /\ participantsSummary # NoSummary =>
         /\ Len(participantsSummary.entries) = 1
         /\ participantsSummary.entries[1].participant_id =
              meetingParticipants[1].participant_id
    /\ (lastFrame.handler # 0 /\ lastFrame.amp >= SilenceThreshold) =>
         /\ lastFrame.sent
         /\ lastFrame.pid = meetingParticipants[1].participant_id

----------------------------------------------------------------------------
(* botv3.js: the run *)

\* C18: when waitForMeetingAdmission has timed out, every writer that was
\* opened is closed and finalized: the writers table is empty and no raw
\* artifact has an open descriptor
C18_TimeoutFinalizes ==
  runPc = "aborted" =>
    /\ \A k \in Keys : writers[k] = NoWriter
    /\ \A i \in 1..Len(fds) : ~fds[i].open

\* C19: no raw artifact is opened and no chunk is written before admission
\* has been observed, and none at all when admission failed
C19_AdmissionGate ==
  runPc \in {"exposed", "waiting", "aborted"} =>
    /\ fds = <<>>
    /\ \A k \in Keys : written[k] = <<>>

\* C20: when the closeWriter of one key has thrown in the end-of-run loop,
\* the writer of every other key is closed and finalized and session.end()
\* has written the end metadata
C20_FailureIsolated ==
  runPc = "threw" =>
    /\ \A k \in Keys \ {failedKey} : writers[k] = NoWriter
    /\ sessionEnded

----------------------------------------------------------------------------
(* RTCPeerConnection interceptors *)

C22_EveryConnectionObserved ==
  \A i \in 1..Len(peerConnections) : peerConnections[i].hooked


----------------------------------------------------------------------------
(* Properties of webrtc-hook.js: the track readers *)

\* C23: each inbound audio track has exactly one reader loop (one
\* startProcessor call, one writer key): a track seen before activation waits
\* in pending and is started once by webrtcActivate, and repeated track
\* events for the same track never start a second reader.
C23_OneReaderPerTrack ==
  /\ \A i, j \in 1..Len(readers) :
       readers[i].track = readers[j].track => i = j
  /\ \A i \in 1..Len(readers) : readers[i].track \notin pending

\* the positions of an event in what the loop did with the last frame
EventAt(name) == {k \in 1..Len(lastRead.events) : lastRead.events[k] = name}

C25_FrameErrorIsolated ==
  /\ \A i \in 1..Len(readers) : readers[i].state # "failed"
  /\ (lastRead.reader # 0 /\ ~lastRead.threw) =>
       EventAt("webrtcWriteTrack") # {}

\* a frame is delivered by a reader one of whose earlier frames threw
C25_Witness ==
  /\ lastRead.reader # 0
  /\ lastRead.failedBefore
  /\ ~lastRead.threw
  /\ EventAt("webrtcWriteTrack") # {}

\* C27: a reader has at most one chunk in flight: it does not read the next
\* frame before the delivery of the previous chunk is acknowledged.
C27_OneChunkInFlight ==
  \A i \in 1..Len(readers) : readers[i].inFlight <= 1


----------------------------------------------------------------------------
(* Properties of finalization *)

\* the raw artifact and the container of the track
TrackRaw == rawFiles[RawPath(TrackKey)]
TrackWav == wavFiles[WavPath(TrackKey)]
\* readUInt32LE(off): the number in the four bytes that follow offset off
LE32At(bytes, off) ==
  bytes[off + 1] + 256 * bytes[off + 2] + 65536 * bytes[off + 3]
    + 16777216 * bytes[off + 4]
AfterHeader(bytes) == SubSeq(bytes, WavHeaderSize + 1, Len(bytes))

\* C28: for a raw artifact of S > 0 bytes finalizeRawToWav produces a
\* container of exactly S + 44 bytes whose data-length field is S and whose
\* bytes after the header are those of the raw artifact, and it leaves the
\* raw artifact as it was.
C28_HeaderPlusPayload ==
  (TrackWav.exists /\ Len(written[TrackKey]) > 0) =>
    /\ Len(TrackWav.bytes) = Len(written[TrackKey]) + 44
    /\ LE32At(TrackWav.bytes, 40) = Len(written[TrackKey])
    /\ AfterHeader(TrackWav.bytes) = TrackRaw.data
    /\ TrackRaw.exists
    /\ TrackRaw.data = written[TrackKey]

\* a raw artifact of several bytes has been finalized
C28_Witness ==
  /\ TrackWav.exists
  /\ Len(TrackRaw.data) >= 2

C30_NoEmptyContainer ==
  writers[TrackKey] = NoWriter /\ Len(fds) > 0 /\ Len(written[TrackKey]) = 0 =>
    /\ ~TrackWav.exists
    /\ ~TrackRaw.exists


----------------------------------------------------------------------------
(* Properties of RecordingSession and the end of the run *)

\* nothing of the session is suspended: every handler has returned
Quiescent == handlers = <<>>

\* C31: onTrackMeta for a key that is not in the tracks table changes
\* neither the table nor a document on disk, and applying onTrackMeta twice
\* with the same key and values gives the table and the documents that
\* applying it once gives (the documents are those of the table once the
\* handlers have returned).
C31_MetaNoOpIdempotent ==
  /\ [][(lastEvent'.n # lastEvent.n /\ lastEvent'.type = "track-meta"
           /\ ~lastEvent'.known)
        => /\ tracks' = tracks
           /\ tracksIndexDoc' = tracksIndexDoc
           /\ trackDocs' = trackDocs
           /\ metaDoc' = metaDoc
           /\ handlers' = handlers]_vars
  /\ [](\A key \in SessionKeys, p \in MetaPayloads :
          OnTrackMeta(OnTrackMeta(tracks, key, p.sample_rate, p.channels),
                      key, p.sample_rate, p.channels)
            = OnTrackMeta(tracks, key, p.sample_rate, p.channels))
  /\ [](Quiescent =>
          /\ tracksIndexDoc = tracks
          /\ \A key \in SessionKeys : trackDocs[key] = tracks[key])

\* a track-meta event for an unknown key has been handled while another
\* track has its sample rate on disk
C31_Witness ==
  /\ lastEvent.type = "track-meta"
  /\ ~lastEvent.known
  /\ Quiescent
  /\ \E key \in SessionKeys : trackDocs[key].sample_rate # 0


\* end() has returned
EndCompleted == endPc \in {"ended", "closed"}

\* C32: once RecordingSession.end() has completed, meeting_metadata.json has
\* ended_at set and the tracks index on disk equals the tracks table in
\* memory, also when track events were still being handled when end() was
\* called.
C32_EndFlushesMetadata ==
  EndCompleted => (metaDoc.ended_at /\ tracksIndexDoc = tracks)

\* C38: after a run has ended normally, every track of the tracks index
\* whose artifact was finalized has ended_at set, also when the end-of-run
\* loop closed it and no track-close event did.
C38_FinalizedTracksEnded ==
  (EndCompleted /\ Quiescent) =>
    \A key \in SessionKeys :
      (tracksIndexDoc[key].present /\ wavFiles[WavPath(key)].exists)
        => tracksIndexDoc[key].ended_at

\* C39: for every key, the container file name the tracks index records
\* (field wav) is the name of the container closeWriter produces for it.
C39_IndexNamesContainer ==
  \A key \in SessionKeys :
    (tracks[key].present /\ wavFiles[WavPath(key)].exists)
      => tracks[key].wav = WavPath(key)


----------------------------------------------------------------------------
(* Properties of the start of the run *)

\* session.init() has failed
InitFailed == startErr # 0 /\ StartSteps[startErr].at = "init"

\* C33: if RecordingSession.init() fails, the run aborts at once: no bridge
\* function is exposed, the meeting is not joined and no track storage is
\* ever opened.
C33_InitFailureAborts ==
  (startErr # 0 /\ StartSteps[startErr].at = "init") =>
    /\ startPc = Rejected
    /\ bridges = {}
    /\ ~pageNavigated
    /\ Len(fds) = 0

\* the write of the participants summary in init() has failed
C33_Witness ==
  /\ InitFailed
  /\ StartSteps[startErr].what = "summaryFile"


----------------------------------------------------------------------------
(* Properties of the samples of a frame *)

\* the sample a 16-bit number stands for is q / Scale; it is within one
\* step of s / SampleUnit
WithinOneStep(q, s) == Abs(q * SampleUnit - s * Scale(s)) <= SampleUnit

\* C34: every sample in [-1, 1] is converted to an integer of
\* -32768..32767 that maps back to the sample within one quantization step;
\* -1.0 gives -32768 and 1.0 gives 32767; a sample outside [-1, 1] gives
\* what the nearest end of the range gives.  The bytes handed on for a frame
\* are these numbers, and both conversions agree.  (The first part speaks of
\* the conversion alone and is evaluated between two frames.)
C34_FloatToInt16 ==
  /\ (pcmPath = "none") =>
       \A s \in AllSamples :
         LET q == SampleToI16(s)
         IN  /\ q \in (0 - 32768)..32767
             /\ (Abs(s) <= SampleUnit) => WithinOneStep(q, s)
             /\ (s = 0 - SampleUnit) => q = 0 - 32768
             /\ (s = SampleUnit) => q = 32767
             /\ (s > SampleUnit) => q = SampleToI16(SampleUnit)
             /\ (s < 0 - SampleUnit) => q = SampleToI16(0 - SampleUnit)
  /\ (pcmPath \in {"planar", "interleaved"}) =>
       /\ Len(pcmBytes) = 2 * Len(pcmMono)
       /\ Samples(pcmBytes) = ConvertFloat32ToInt16(pcmMono)

\* a frame of one channel with a sample above the range and the sample -1.0
\* has been converted
C34_Witness ==
  /\ pcmPath = "planar"
  /\ pcmFrame.numCh = 1
  /\ pcmMono = <<2 * SampleUnit, 0 - SampleUnit>>
  /\ pcmBytes = <<255, 127, 0, 128>>

\* the samples of all channels at index i
AtIndex(frame, i) == [ch \in 1..frame.numCh |-> frame.samples[ch][i]]

\* C35: for every frame the planar path and the interleaved fallback give
\* the same mono samples (and so does convertToMono); each is the mean of
\* the channels' samples at its index, as near as the sample format has it,
\* and exactly the common sample where the channels agree; with one channel
\* the mono samples are the channel.
C35_MonoPathsAgree ==
  (pcmPath \in {"planar", "interleaved"}) =>
    /\ MonoPlanar(pcmFrame) = MonoInterleaved(pcmFrame)
    /\ ConvertToMono(CopyInterleaved(pcmFrame), pcmFrame.numCh)
         = MonoPlanar(pcmFrame)
    /\ pcmMono = MonoPlanar(pcmFrame)
    /\ Len(pcmMono) = Len(pcmFrame.samples[1])
    /\ \A i \in 1..Len(pcmMono) :
         /\ 2 * Abs(pcmMono[i] * pcmFrame.numCh - SeqSum(AtIndex(pcmFrame, i)))
              <= pcmFrame.numCh
         /\ (\A ch \in 1..pcmFrame.numCh :
               pcmFrame.samples[ch][i] = pcmFrame.samples[1][i])
              => pcmMono[i] = pcmFrame.samples[1][i]
    /\ (pcmFrame.numCh = 1) => pcmMono = pcmFrame.samples[1]

\* the fallback has mixed a frame of two channels that differ
C35_Witness ==
  /\ pcmPath = "interleaved"
  /\ pcmFrame.numCh = 2
  /\ pcmFrame.samples = <<<<SampleUnit, 1>>, <<0 - 1, 2 * SampleUnit>>>>
  /\ pcmMono[1] # pcmFrame.samples[1][1]
  /\ pcmMono[1] # pcmFrame.samples[2][1]


----------------------------------------------------------------------------
(* Properties of the silence statistics and the participants list *)

\* C36: when a chunk that is not silent is written directly after one or
\* more consecutive silent chunks of the same participant, the silence_stats
\* of the participant's current track are recorded.
C36_SilenceStatsRecorded ==
  (lastChunk.valid /\ ~lastChunk.silent /\ lastChunk.written
     /\ lastChunk.before >= 1)
    => lastChunk.stats


\* C37: the participants list of the meeting metadata never holds two
\* entries with the same participant_id, whether the page has reported a
\* participant or a chunk of audio of the participant has arrived.
C37_UniqueParticipantIds ==
  \A j, k \in 1..Len(meetingParticipants) :
    meetingParticipants[j].participant_id = meetingParticipants[k].participant_id
      => j = k


\* a later call of updateMeetingParticipants has found the first entry of
\* the list and replaced it, and a chunk of audio of that participant has
\* been delivered
C37_Witness ==
  /\ Len(meetingParticipants) = 2
  /\ meetingParticipants[1].join_time > 1
  /\ lastChunk.valid
  /\ meetingParticipants[1].participant_id = lastChunk.pid


----------------------------------------------------------------------------
(* Properties of the installation *)

\* the times a script wraps the constructor
Wraps(script) == Cardinality({k \in 1..Len(wrappers) : wrappers[k] = script})

\* C40: a script that runs more than once in a document wraps the
\* peer-connection constructor once; attaching it to the same peer
\* connection more than once registers one track listener; so a script
\* handles no track event twice.
C40_InstalledOnce ==
  \A script \in HookScripts :
    /\ Wraps(script) <= 1
    /\ Wraps(script) = 1 => script \in hookFlags
    /\ \A i \in 1..Len(hookPcs) :
         /\ hookPcs[i].listeners[script] <= 1
         /\ Attach(Attach(hookPcs[i], script), script) = Attach(hookPcs[i], script)
         /\ Attach(hookPcs[i], script).listeners[script] = 1
    /\ handledLast[script] <= 1

\* webrtc-hook.js has run twice in the document, and it has handled the
\* track event of a peer connection made after it
C40_Witness ==
  /\ scriptRuns["webrtc-hook.js"] = 2
  /\ Wraps("webrtc-hook.js") = 1
  /\ hookPcs # <<>>
  /\ handledLast["webrtc-hook.js"] = 1

====
